---- MODULE Spec2Model ----
(***************************************************************************)
(* Model of the reminder store (storage.ReminderRepository) and of the two *)
(* periodic checkers of the bot (processDueReminders and                   *)
(* processRecurringReminders) of kmbjz/reminders21.                        *)
(*                                                                         *)
(* Time is a bounded integer clock.  The committed content of the SQLite   *)
(* tables is kept apart from the writes of a transaction that was opened   *)
(* and never finished: database/sql is configured with one connection      *)
(* (SetMaxOpenConns(1)), so such a transaction keeps every later statement *)
(* waiting for the connection.                                             *)
(***************************************************************************)
EXTENDS Integers, Sequences, FiniteSets, TLC

\* ------------------------------------------------------------------ bounds
MaxReminders == 2
MaxTime == 2

MaxRecurring == 1
MaxOwned == 1
MaxDay == 1
MinutesPerDay == 2
SlotsPerMinute == 2

Users == {1, 2}
Labels == {"a", "b"}
Times == 0..MaxTime
Ids == 1..MaxReminders
RecIds == 1..MaxRecurring
Days == 0..MaxDay
SlotsPerDay == MinutesPerDay * SlotsPerMinute
RecTimes == 0..((MaxDay + 1) * SlotsPerDay - 1)
TimesOfDay == 0..(MinutesPerDay - 1)

VARIABLES
  now,          \* time.Now() as read by the last checker tick
  reminders,    \* committed rows of table reminders: id -> row
  seq,          \* AUTOINCREMENT counter of table reminders
  txOpen,       \* the single connection is held by an unfinished transaction
  txMarked,     \* ids updated inside that unfinished transaction
  pc,           \* position of the one-shot checker goroutine
  due,          \* processDueReminders: reminders (result of GetDueReminders)
  idx,          \* processDueReminders: position of the range loop
  reminderIDs,  \* processDueReminders: reminderIDs
  sent,         \* id -> number of successful sends
  dueTicks,     \* id -> number of ticks whose GetDueReminders returned it
  sendFails,    \* id -> number of failed sends
  markFails,    \* id -> number of failed mark batches that listed it
  observing,    \* whether the return values of owner calls are recorded
  ret,          \* what the last owner call on the store returned
  timezone,     \* table user_preferences: user_id -> timezone
  adj,          \* processAdjustRecurringOperation: its position and locals
  reply,        \* the last message an adjust handler sent to its chat
  batch,        \* processOperations: the user, the operations, the position
  stopChan,     \* b.stopChan: whether the channel is closed
  exited,       \* whether main has returned
  lock,         \* r.lock: whether the mutex of the repository is locked
  inCall,       \* goroutine -> its position in a method of the repository
  recurring,    \* committed rows of table recurring_reminders: id -> row
  recSeq,       \* AUTOINCREMENT counter of table recurring_reminders
  rpc,          \* position of the recurring checker goroutine
  rnow,         \* processRecurringReminders: now
  rdue,         \* processRecurringReminders: reminders
  ridx,         \* processRecurringReminders: position of the range loop
  fired,        \* id -> day -> number of successful sends on that day
  rSendFails,   \* id -> number of failed sends
  rMarkCalls,   \* id -> number of UpdateRecurringReminderLastTriggered calls
  wmFails       \* id -> day -> number of those calls that failed on that day

storeVars == <<reminders, seq, txOpen, txMarked>>
tickVars == <<pc, due, idx, reminderIDs>>
histVars == <<sent, dueTicks, sendFails, markFails>>
recVars == <<recurring, recSeq, rpc, rnow, rdue, ridx, fired, rSendFails, rMarkCalls,
             wmFails>>
oneShotVars == <<reminders, seq, txMarked, tickVars, histVars>>
botVars == <<batch, adj, reply>>
lockVars == <<lock, inCall>>
procVars == <<stopChan, exited>>
vars == <<now, storeVars, tickVars, histVars, observing, procVars, lockVars,
          botVars, ret, timezone, recVars>>

\* ------------------------------------------------------------ pure helpers
RECURSIVE SeqToSet(_)
SeqToSet(s) == IF s = <<>> THEN {} ELSE {Head(s)} \cup SeqToSet(Tail(s))

OrderByRowid(tbl, S) ==
  [k \in 1..Cardinality(S) |->
     tbl[CHOOSE i \in S : Cardinality({j \in S : j < i}) = k - 1]]

\* ORDER BY reminder_time (rows of equal time in rowid order)
RECURSIVE OrderByReminderTime(_, _)
OrderByReminderTime(tbl, S) ==
  IF S = {} THEN <<>>
  ELSE LET m == CHOOSE i \in S : \A j \in S :
                   \/ tbl[i].reminder_time < tbl[j].reminder_time
                   \/ (tbl[i].reminder_time = tbl[j].reminder_time /\ i <= j)
       IN <<tbl[m]>> \o OrderByReminderTime(tbl, S \ {m})

DueWhereAnyNotified(row, before) ==
  /\ row.reminder_time <= before
  /\ ~row.is_todo

\* WHERE reminder_time <= ? AND notified = 0 AND is_todo = 0
DueWhere(row, before) ==
  /\ row.reminder_time <= before
  /\ ~row.notified
  /\ ~row.is_todo

GetDueReminders(tbl, before) ==
  OrderByReminderTime(tbl, {i \in DOMAIN tbl : DueWhere(tbl[i], before)})

UserWhereAnyNotified(row, userID) == row.user_id = userID

\* a listing that selects the live rows of every user
UserWhereAnyUser(row, userID) == ~row.notified

\* WHERE user_id = ? AND notified = 0
UserWhere(row, userID) ==
  /\ row.user_id = userID
  /\ ~row.notified

GetUserReminders(tbl, userID) ==
  OrderByReminderTime(tbl, {i \in DOMAIN tbl : UserWhere(tbl[i], userID)})

PeriodWhereClosed(row, userID, start, end) ==
  /\ row.user_id = userID
  /\ ~row.notified
  /\ row.reminder_time >= start
  /\ row.reminder_time <= end

\* WHERE user_id = ? AND notified = 0 AND reminder_time >= ? AND
\* reminder_time < ?
PeriodWhere(row, userID, start, end) ==
  /\ row.user_id = userID
  /\ ~row.notified
  /\ row.reminder_time >= start
  /\ row.reminder_time < end

GetUserRemindersByPeriod(tbl, userID, start, end) ==
  OrderByReminderTime(tbl, {i \in DOMAIN tbl :
                              PeriodWhere(tbl[i], userID, start, end)})

\* the ids of the rows of a result
RowIds(rows) == {rows[k].id : k \in 1..Len(rows)}

OwnerWhereAnyUser(tbl, id, userID) ==
  /\ id \in DOMAIN tbl
  /\ ~tbl[id].notified

OwnerWhereAnyState(tbl, id, userID) ==
  /\ id \in DOMAIN tbl
  /\ tbl[id].user_id = userID

\* WHERE id = ? AND user_id = ? AND notified = 0
OwnerWhere(tbl, id, userID) ==
  /\ id \in DOMAIN tbl
  /\ tbl[id].user_id = userID
  /\ ~tbl[id].notified

SetNotifiedNoop(tbl, S) == tbl

\* UPDATE reminders SET notified = 1 WHERE id = ?  for every id of S
SetNotified(tbl, S) ==
  [i \in DOMAIN tbl |-> IF i \in S THEN [tbl[i] EXCEPT !.notified = TRUE]
                        ELSE tbl[i]]

Bump(f, S) == [i \in DOMAIN f |-> IF i \in S THEN f[i] + 1 ELSE f[i]]

NoRet == [op |-> "none", id |-> 0, user |-> 0, ok |-> FALSE]
Returned(op, id, userID, ok) ==
  IF observing THEN [op |-> op, id |-> id, user |-> userID, ok |-> ok]
  ELSE NoRet

\* a statement on the connection can run only while no transaction holds it
DbAvailable == ~txOpen

\* timezone TEXT NOT NULL DEFAULT 'Europe/Moscow'
DefaultZone == "Europe/Moscow"
\* the names time.LoadLocation accepts, among those a user may send
Zones == {"Europe/Moscow", "Asia/Vladivostok"}
ZoneInputs == Zones \cup {"Mars/Base"}

\* SELECT timezone FROM user_preferences WHERE user_id = ?, and the default
\* on sql.ErrNoRows
ZoneOf(tbl, userID) ==
  IF userID \in DOMAIN tbl THEN tbl[userID] ELSE DefaultZone

\* INSERT INTO user_preferences ... ON CONFLICT(user_id) DO UPDATE SET
\* timezone = ?
UpsertZone(tbl, userID, tz) ==
  [u \in DOMAIN tbl \cup {userID} |-> IF u = userID THEN tz ELSE tbl[u]]

\* a read that creates no row
ReadLeavesNoRow(tbl, userID) == tbl

\* GetUserTimezone on sql.ErrNoRows: INSERT INTO user_preferences the default
InsertDefaultZone(tbl, userID) ==
  IF userID \in DOMAIN tbl THEN tbl ELSE UpsertZone(tbl, userID, DefaultZone)

\* what GetUserTimezone and SetUserTimezone return: the zone read or given,
\* and whether the error is nil
ZoneReturned(op, userID, ok, zone) ==
  IF observing
  THEN [op |-> op, id |-> 0, user |-> userID, ok |-> ok, zone |-> zone]
  ELSE NoRet

\* no adjust handler is between its two store calls; nothing was replied
IdleAdj == [pc |-> "idle"]
NoReply == "none"
\* no message handler is inside processOperations
NoBatch == [user |-> 0, ops |-> <<>>, i |-> 1]

\* the goroutines that call the repository: the two checkers, and one
\* processUpdate for each of two updates that arrive together
Goroutines ==
  {"checkReminders", "startRecurringChecker", "processUpdate1", "processUpdate2"}
\* a goroutine that is in no method of the repository
OutOfCall == [pc |-> "out"]

\* -------------------------------------------------------------------- Init
InitStore ==
  /\ now = 0
  /\ reminders = <<>>
  /\ seq = 0
  /\ txOpen = FALSE
  /\ txMarked = {}
  /\ pc = "idle"
  /\ due = <<>>
  /\ idx = 1
  /\ reminderIDs = <<>>
  /\ sent = [i \in Ids |-> 0]
  /\ dueTicks = [i \in Ids |-> 0]
  /\ sendFails = [i \in Ids |-> 0]
  /\ markFails = [i \in Ids |-> 0]
  /\ ret = NoRet
  /\ timezone = [u \in {} |-> DefaultZone]
  /\ adj = IdleAdj
  /\ reply = NoReply
  /\ batch = NoBatch
  /\ stopChan = FALSE
  /\ exited = FALSE
  /\ lock = FALSE
  /\ inCall = [g \in Goroutines |-> OutOfCall]
  /\ recurring = <<>>
  /\ recSeq = 0
  /\ rpc = "idle"
  /\ rnow = 0
  /\ rdue = <<>>
  /\ ridx = 1
  /\ fired = [i \in RecIds |-> [d \in Days |-> 0]]
  /\ rSendFails = [i \in RecIds |-> 0]
  /\ rMarkCalls = [i \in RecIds |-> 0]
  /\ wmFails = [i \in RecIds |-> [d \in Days |-> 0]]

Init == InitStore /\ observing = FALSE

\* ------------------------------------------------- owner calls on the store
\* id INTEGER PRIMARY KEY: the rowid after the largest one in the table
RowidAfterMax(tbl, sequence) ==
  IF DOMAIN tbl = {} THEN 1
  ELSE (CHOOSE i \in DOMAIN tbl : \A j \in DOMAIN tbl : j <= i) + 1

\* id INTEGER PRIMARY KEY AUTOINCREMENT: the rowid after the largest one the
\* table ever held, which sqlite_sequence keeps
Autoincrement(tbl, sequence) == sequence + 1

\* INSERT INTO reminders (chat_id, user_id, reminder_time, label, is_todo):
\* the new row gets the next AUTOINCREMENT id, notified defaults to 0
InsertRow(tbl, id, chatID, userID, reminderTime, label, isTodo) ==
  [i \in DOMAIN tbl \cup {id} |->
     IF i = id
     THEN [id |-> i, chat_id |-> chatID, user_id |-> userID,
           reminder_time |-> reminderTime, label |-> label,
           notified |-> FALSE, is_todo |-> isTodo]
     ELSE tbl[i]]

AddReminder(chatID, userID, reminderTime, label, isTodo) ==
  /\ DbAvailable
  /\ seq' = seq + 1
  /\ reminders' = InsertRow(reminders, Autoincrement(reminders, seq), chatID, userID, reminderTime,
                            label, isTodo)
  /\ ret' = Returned("AddReminder", Autoincrement(reminders, seq), userID, TRUE)
  /\ UNCHANGED <<now, txOpen, txMarked, tickVars, histVars, observing, procVars, lockVars, botVars, timezone, recVars>>

\* UPDATE reminders SET reminder_time = ? WHERE id = ? AND user_id = ? AND
\* notified = 0
SetReminderTime(tbl, id, userID, reminderTime) ==
  IF OwnerWhere(tbl, id, userID)
  THEN [tbl EXCEPT ![id].reminder_time = reminderTime]
  ELSE tbl

\* UPDATE reminders SET label = ? WHERE ...
SetReminderLabel(tbl, id, userID, label) ==
  IF OwnerWhere(tbl, id, userID) THEN [tbl EXCEPT ![id].label = label]
  ELSE tbl

\* UPDATE reminders SET reminder_time = ?, label = ? WHERE ...
SetReminderTimeAndLabel(tbl, id, userID, reminderTime, label) ==
  IF OwnerWhere(tbl, id, userID)
  THEN [tbl EXCEPT ![id].reminder_time = reminderTime, ![id].label = label]
  ELSE tbl

UpdateReminderTime(id, userID, reminderTime) ==
  /\ DbAvailable
  /\ reminders' = SetReminderTime(reminders, id, userID, reminderTime)
  /\ ret' = Returned("UpdateReminderTime", id, userID,
                     OwnerWhere(reminders, id, userID))
  /\ UNCHANGED <<now, seq, txOpen, txMarked, tickVars, histVars, observing, procVars, lockVars, botVars, timezone, recVars>>

UpdateReminderLabel(id, userID, label) ==
  /\ DbAvailable
  /\ reminders' = SetReminderLabel(reminders, id, userID, label)
  /\ ret' = Returned("UpdateReminderLabel", id, userID,
                     OwnerWhere(reminders, id, userID))
  /\ UNCHANGED <<now, seq, txOpen, txMarked, tickVars, histVars, observing, procVars, lockVars, botVars, timezone, recVars>>

UpdateReminder(id, userID, reminderTime, label) ==
  /\ DbAvailable
  /\ reminders' = SetReminderTimeAndLabel(reminders, id, userID, reminderTime,
                                          label)
  /\ ret' = Returned("UpdateReminder", id, userID,
                     OwnerWhere(reminders, id, userID))
  /\ UNCHANGED <<now, seq, txOpen, txMarked, tickVars, histVars, observing, procVars, lockVars, botVars, timezone, recVars>>

\* a delete that leaves the row in the table
DeleteRowKeeps(tbl, id, userID) == tbl

\* DELETE FROM reminders WHERE id = ? AND user_id = ? AND notified = 0
DeleteRow(tbl, id, userID) ==
  IF OwnerWhere(tbl, id, userID) THEN [i \in DOMAIN tbl \ {id} |-> tbl[i]]
  ELSE tbl

DeleteReminder(id, userID) ==
  /\ DbAvailable
  /\ reminders' = DeleteRow(reminders, id, userID)
  /\ ret' = Returned("DeleteReminder", id, userID,
                     OwnerWhere(reminders, id, userID))
  /\ UNCHANGED <<now, seq, txOpen, txMarked, tickVars, histVars, observing, procVars, lockVars, botVars, timezone, recVars>>

\* ------------------------------------------------- the one-shot checker
\* checkReminders: the ticker fires at a later instant t and
\* processDueReminders reads now := time.Now()
TickStart(t) ==
  /\ pc = "idle"
  /\ t > now
  /\ now' = t
  /\ pc' = "query"
  /\ UNCHANGED <<storeVars, due, idx, reminderIDs, histVars, observing, procVars, lockVars, botVars, timezone, recVars, ret>>

\* b.repo.GetDueReminders(now) returned an error: the tick ends
GetDueFail ==
  /\ pc = "query"
  /\ DbAvailable
  /\ pc' = "idle"
  /\ UNCHANGED <<now, storeVars, due, idx, reminderIDs, histVars, observing, procVars, lockVars, botVars, timezone, recVars,
                 ret>>

\* b.repo.GetDueReminders(now) returned rows; no rows end the tick
GetDue ==
  /\ pc = "query"
  /\ DbAvailable
  /\ LET rows == GetDueReminders(reminders, now)
     IN /\ due' = IF Len(rows) = 0 THEN <<>> ELSE rows
        /\ pc' = IF Len(rows) = 0 THEN "idle" ELSE "send"
        /\ dueTicks' = Bump(dueTicks, {rows[k].id : k \in 1..Len(rows)})
  /\ UNCHANGED <<now, storeVars, idx, reminderIDs, sent, sendFails, markFails,
                 observing, procVars, lockVars, botVars, timezone, recVars, ret>>

AppendAlways(ids, r, ok) == Append(ids, r.id)

\* the ids the range loop has collected after bot.Send for row r returned
AppendSent(ids, r, ok) == IF ok THEN Append(ids, r.id) ELSE ids

\* one iteration of the range loop: bot.Send succeeds or fails
Send(ok) ==
  /\ pc = "send"
  /\ idx <= Len(due)
  /\ reminderIDs' = AppendSent(reminderIDs, due[idx], ok)
  /\ sent' = IF ok THEN Bump(sent, {due[idx].id}) ELSE sent
  /\ sendFails' = IF ok THEN sendFails ELSE Bump(sendFails, {due[idx].id})
  /\ idx' = idx + 1
  /\ pc' = IF idx = Len(due) THEN "mark" ELSE "send"
  /\ UNCHANGED <<now, storeVars, due, dueTicks, markFails, observing, procVars, lockVars, botVars, timezone, recVars, ret>>

\* what MarkMultipleAsNotified leaves behind.  outcome is the step that
\* failed ("begin", "prepare", "exec" at position k, "commit") or "ok".
\*   begin   : returns before a transaction exists
\*   prepare : the function-level err is set, the deferred closure rolls back
\*   exec    : the error is held by the err of the if statement; the deferred
\*             closure tests the function-level err, which is nil, so the
\*             transaction is neither rolled back nor committed
\*   commit  : nothing is committed, the connection is released
MarkAutoCommit(tbl, ids, outcome, k) ==
  IF outcome = "ok" THEN SetNotified(tbl, SeqToSet(ids))
  ELSE IF outcome = "exec"
       THEN SetNotified(tbl, {ids[j] : j \in 1..(k - 1)})
       ELSE tbl

MarkCommitted(tbl, ids, outcome, k) ==
  IF outcome = "ok" THEN SetNotified(tbl, SeqToSet(ids)) ELSE tbl

MarkLeavesTxOpen(outcome) == outcome = "exec"

\* the last step of processDueReminders; its locals end with it
MarkMultipleAsNotified(outcome, k) ==
  /\ pc = "mark"
  /\ IF Len(reminderIDs) = 0
     THEN /\ outcome = "ok"
          /\ k = 1
          /\ UNCHANGED <<reminders, txOpen, txMarked, markFails>>
     ELSE /\ DbAvailable
          /\ k \in 1..Len(reminderIDs)
          /\ (outcome # "exec") => (k = 1)
          /\ reminders' = MarkCommitted(reminders, reminderIDs, outcome, k)
          /\ txOpen' = MarkLeavesTxOpen(outcome)
          /\ txMarked' = IF MarkLeavesTxOpen(outcome)
                         THEN {reminderIDs[j] : j \in 1..(k - 1)}
                              \cap DOMAIN reminders
                         ELSE {}
          /\ markFails' = IF outcome = "ok" THEN markFails
                          ELSE Bump(markFails, SeqToSet(reminderIDs))
  /\ pc' = "idle"
  /\ due' = <<>>
  /\ idx' = 1
  /\ reminderIDs' = <<>>
  /\ UNCHANGED <<now, seq, sent, dueTicks, sendFails, observing, procVars, lockVars, botVars, timezone, recVars, ret>>

MarkOutcomes == {"ok", "begin", "prepare", "exec", "commit"}

\* -------------------------------------------------------------------- Next
\* the owner calls with their inputs drawn from U, T, L and B
OwnerCall(U, T, L, B, cap) ==
  \/ \E u \in U, t \in T, l \in L, todo \in B :
       seq < cap /\ AddReminder(u, u, t, l, todo)
  \/ \E i \in 1..cap, u \in U, t \in T : UpdateReminderTime(i, u, t)
  \/ \E i \in 1..cap, u \in U, l \in L : UpdateReminderLabel(i, u, l)
  \/ \E i \in 1..cap, u \in U, t \in T, l \in L : UpdateReminder(i, u, t, l)
  \/ \E i \in 1..cap, u \in U : DeleteReminder(i, u)

Checker(SendOutcomes, Outcomes) ==
  \/ \E t \in Times : TickStart(t)
  \/ GetDueFail
  \/ GetDue
  \/ \E ok \in SendOutcomes : Send(ok)
  \/ \E o \in Outcomes, k \in Ids : MarkMultipleAsNotified(o, k)

\* delivery: every failure of the notifier and of the store
Next ==
  \/ OwnerCall(Users, Times, {"a"}, BOOLEAN, MaxReminders)
  \/ Checker(BOOLEAN, MarkOutcomes)

Spec == Init /\ [][Next]_vars

\* ================================================= recurring reminders
NoTime == -1    \* last_triggered IS NULL
NoDay == -1     \* IFNULL(day_of_week, -1), IFNULL(day_of_month, -1)

\* the calendar the clock counts from: Monday 29 April 2024, 00:00
EpochDate == [weekday |-> 1, day |-> 29, monthLen |-> 30]
DayIndex(t) == t \div SlotsPerDay

\* now.Format("15:04"): the minute of the day
Format1504(t) == (t % SlotsPerDay) \div SlotsPerMinute
\* int(now.Weekday()), 0 = Sunday
Weekday(t) == (EpochDate.weekday + DayIndex(t)) % 7
\* now.Day()
DayOfMonth(t) == ((EpochDate.day - 1 + DayIndex(t)) % EpochDate.monthLen) + 1
\* time.Date(now.Year(), now.Month(), now.Day(), 0, 0, 0, 0, now.Location())
StartOfToday(t) == DayIndex(t) * SlotsPerDay

\* sql.NullInt64{Int64: int64(dayOfWeek), Valid: dayOfWeek >= 0}
NullDayOfWeek(d) == IF d >= 0 THEN d ELSE NoDay
\* sql.NullInt64{Int64: int64(dayOfMonth), Valid: dayOfMonth > 0}
NullDayOfMonth(d) == IF d > 0 THEN d ELSE NoDay

PatternAlways(row, t) == TRUE

\* (recurring_type = 'daily') OR (recurring_type = 'weekly' AND
\* day_of_week = ?) OR (recurring_type = 'monthly' AND day_of_month = ?)
PatternMatches(row, t) ==
  \/ row.recurring_type = "daily"
  \/ (row.recurring_type = "weekly" /\ row.day_of_week # NoDay
        /\ row.day_of_week = Weekday(t))
  \/ (row.recurring_type = "monthly" /\ row.day_of_month # NoDay
        /\ row.day_of_month = DayOfMonth(t))

WatermarkAny(row, t) == TRUE

\* last_triggered IS NULL OR last_triggered < ?   (? = startOfToday)
WatermarkBefore(row, t) ==
  \/ row.last_triggered = NoTime
  \/ row.last_triggered < StartOfToday(t)

RecDueWhereAnyTodo(row, t) ==
  /\ row.active
  /\ row.time = Format1504(t)
  /\ PatternMatches(row, t)
  /\ WatermarkBefore(row, t)

\* WHERE active = 1 AND is_todo = 0 AND time = ? AND (...) AND (...)
RecDueWhere(row, t) ==
  /\ row.active
  /\ ~row.is_todo
  /\ row.time = Format1504(t)
  /\ PatternMatches(row, t)
  /\ WatermarkBefore(row, t)

RECURSIVE ById(_, _)
ById(tbl, S) ==
  IF S = {} THEN <<>>
  ELSE LET m == CHOOSE i \in S : \A j \in S : i <= j
       IN <<tbl[m]>> \o ById(tbl, S \ {m})

GetDueRecurringReminders(tbl, t) ==
  ById(tbl, {i \in DOMAIN tbl : RecDueWhere(tbl[i], t)})

RecUserWhereAnyActive(row, userID) == row.user_id = userID

\* WHERE user_id = ? AND active = 1
RecUserWhere(row, userID) ==
  /\ row.user_id = userID
  /\ row.active

\* ORDER BY created_at DESC: the newest row first
ByCreatedAtDesc(tbl, S) ==
  [k \in 1..Cardinality(S) |->
     tbl[CHOOSE i \in S : Cardinality({j \in S : j > i}) = k - 1]]

GetUserRecurringReminders(tbl, userID) ==
  ByCreatedAtDesc(tbl, {i \in DOMAIN tbl : RecUserWhere(tbl[i], userID)})

\* WHERE id = ? AND user_id = ? AND active = 1
RecOwnerWhere(tbl, id, userID) ==
  /\ id \in DOMAIN tbl
  /\ tbl[id].user_id = userID
  /\ tbl[id].active

Bump2(f, i, d) == [f EXCEPT ![i][d] = @ + 1]

recTickVars == <<rpc, rnow, rdue, ridx>>
recHistVars == <<fired, rSendFails, rMarkCalls, wmFails>>

\* INSERT INTO recurring_reminders (...): the new row gets the next
\* AUTOINCREMENT id, active = 1 and last_triggered NULL
InsertRecurring(tbl, id, chatID, userID, label, recurringType, timeStr, dayOfWeek, dayOfMonth, isTodo) ==
  [i \in DOMAIN tbl \cup {id} |->
     IF i = id
     THEN [id |-> i, chat_id |-> chatID, user_id |-> userID,
           label |-> label, recurring_type |-> recurringType,
           time |-> timeStr,
           day_of_week |-> NullDayOfWeek(dayOfWeek),
           day_of_month |-> NullDayOfMonth(dayOfMonth),
           last_triggered |-> NoTime, active |-> TRUE, is_todo |-> isTodo]
     ELSE tbl[i]]

AddRecurringReminder(chatID, userID, label, recurringType, timeStr, dayOfWeek, dayOfMonth, isTodo) ==
  /\ DbAvailable
  /\ recSeq' = recSeq + 1
  /\ recurring' = InsertRecurring(recurring, recSeq + 1, chatID, userID, label,
                                  recurringType, timeStr, dayOfWeek,
                                  dayOfMonth, isTodo)
  /\ ret' = Returned("AddRecurringReminder", recSeq + 1, userID, TRUE)
  /\ UNCHANGED <<now, storeVars, tickVars, histVars, observing, procVars, lockVars, botVars, timezone, recTickVars,
                 recHistVars>>

\* UPDATE recurring_reminders SET label = ?, recurring_type = ?, time = ?,
\* day_of_week = ?, day_of_month = ? WHERE id = ? AND user_id = ? AND
\* active = 1
SetRecurringFields(tbl, id, userID, label, recurringType, timeStr, dayOfWeek, dayOfMonth) ==
  IF RecOwnerWhere(tbl, id, userID)
  THEN [tbl EXCEPT ![id].label = label,
                   ![id].recurring_type = recurringType,
                   ![id].time = timeStr,
                   ![id].day_of_week = NullDayOfWeek(dayOfWeek),
                   ![id].day_of_month = NullDayOfMonth(dayOfMonth)]
  ELSE tbl

UpdateResetsLastTriggered(id, userID, label, recurringType, timeStr, dayOfWeek, dayOfMonth) ==
  /\ DbAvailable
  /\ recurring' = IF RecOwnerWhere(recurring, id, userID)
                  THEN [recurring EXCEPT
                          ![id].label = label,
                          ![id].recurring_type = recurringType,
                          ![id].time = timeStr,
                          ![id].day_of_week = NullDayOfWeek(dayOfWeek),
                          ![id].day_of_month = NullDayOfMonth(dayOfMonth),
                          ![id].last_triggered = NoTime]
                  ELSE recurring
  /\ ret' = Returned("UpdateRecurringReminder", id, userID,
                     RecOwnerWhere(recurring, id, userID))
  /\ UNCHANGED <<now, storeVars, tickVars, histVars, observing, procVars, lockVars, botVars, timezone, recSeq,
                 recTickVars, recHistVars>>

UpdateRecurringReminder(id, userID, label, recurringType, timeStr, dayOfWeek, dayOfMonth) ==
  /\ DbAvailable
  /\ recurring' = SetRecurringFields(recurring, id, userID, label,
                                     recurringType, timeStr, dayOfWeek,
                                     dayOfMonth)
  /\ ret' = Returned("UpdateRecurringReminder", id, userID,
                     RecOwnerWhere(recurring, id, userID))
  /\ UNCHANGED <<now, storeVars, tickVars, histVars, observing, procVars, lockVars, botVars, timezone, recSeq,
                 recTickVars, recHistVars>>

\* UPDATE recurring_reminders SET active = 0 WHERE id = ? AND user_id = ?
\* AND active = 1
SetInactive(tbl, id, userID) ==
  IF RecOwnerWhere(tbl, id, userID) THEN [tbl EXCEPT ![id].active = FALSE]
  ELSE tbl

DeleteRecurringReminder(id, userID) ==
  /\ DbAvailable
  /\ recurring' = SetInactive(recurring, id, userID)
  /\ ret' = Returned("DeleteRecurringReminder", id, userID,
                     RecOwnerWhere(recurring, id, userID))
  /\ UNCHANGED <<now, storeVars, tickVars, histVars, observing, procVars, lockVars, botVars, timezone, recSeq,
                 recTickVars, recHistVars>>

\* startRecurringChecker: the ticker fires at a later instant t and
\* processRecurringReminders reads now := time.Now()
RecTickStart(t) ==
  /\ rpc = "idle"
  /\ t > now
  /\ now' = t
  /\ rnow' = t
  /\ rpc' = "query"
  /\ UNCHANGED <<storeVars, tickVars, histVars, observing, procVars, lockVars, botVars, timezone, ret, recurring,
                 recSeq, rdue, ridx, recHistVars>>

\* b.repo.GetDueRecurringReminders(now) returned an error: the tick ends
RecGetDueFail ==
  /\ rpc = "query"
  /\ DbAvailable
  /\ rpc' = "idle"
  /\ UNCHANGED <<now, rnow, storeVars, tickVars, histVars, observing, procVars, lockVars, botVars, timezone, ret, recurring,
                 recSeq, rdue, ridx, recHistVars>>

\* b.repo.GetDueRecurringReminders(now) returned rows; no rows end the tick
RecGetDue ==
  /\ rpc = "query"
  /\ DbAvailable
  /\ LET rows == GetDueRecurringReminders(recurring, rnow)
     IN /\ rdue' = rows
        /\ rpc' = IF Len(rows) = 0 THEN "idle" ELSE "send"
  /\ ridx' = 1
  /\ UNCHANGED <<now, rnow, storeVars, tickVars, histVars, observing, procVars, lockVars, botVars, timezone, ret, recurring,
                 recSeq, recHistVars>>

\* the range loop moves to the next row, or the tick ends with its locals
RecAdvance ==
  IF ridx = Len(rdue)
  THEN rpc' = "idle" /\ rdue' = <<>> /\ ridx' = 1
  ELSE rpc' = "send" /\ rdue' = rdue /\ ridx' = ridx + 1

MarkAfterAnySend(ok) == TRUE

\* whether the loop body goes on to UpdateRecurringReminderLastTriggered
\* after bot.Send returned (an error takes the continue)
MarkAfterSend(ok) == ok

\* one bot.Send of the range loop
RecSend(ok) ==
  /\ rpc = "send"
  /\ ridx <= Len(rdue)
  /\ fired' = IF ok THEN Bump2(fired, rdue[ridx].id, DayIndex(rnow)) ELSE fired
  /\ rSendFails' = IF ok THEN rSendFails ELSE Bump(rSendFails, {rdue[ridx].id})
  /\ IF MarkAfterSend(ok)
     THEN rpc' = "mark" /\ UNCHANGED <<rdue, ridx>>
     ELSE RecAdvance
  /\ UNCHANGED <<now, rnow, storeVars, tickVars, histVars, observing, procVars, lockVars, botVars, timezone, ret, recurring,
                 recSeq, rMarkCalls, wmFails>>

\* UPDATE recurring_reminders SET last_triggered = ? WHERE id = ?
SetLastTriggered(tbl, id, t) ==
  IF id \in DOMAIN tbl THEN [tbl EXCEPT ![id].last_triggered = t] ELSE tbl

\* b.repo.UpdateRecurringReminderLastTriggered(r.ID, now); an error is logged
UpdateRecurringReminderLastTriggered(ok) ==
  /\ rpc = "mark"
  /\ DbAvailable
  /\ recurring' = IF ok THEN SetLastTriggered(recurring, rdue[ridx].id, rnow)
                  ELSE recurring
  /\ rMarkCalls' = Bump(rMarkCalls, {rdue[ridx].id})
  /\ wmFails' = IF ok THEN wmFails
                ELSE Bump2(wmFails, rdue[ridx].id, DayIndex(rnow))
  /\ RecAdvance
  /\ UNCHANGED <<now, rnow, storeVars, tickVars, histVars, observing, procVars, lockVars, botVars, timezone, ret, recSeq,
                 fired, rSendFails>>

\* (type, day_of_week, day_of_month) as processCreateRecurringOperation
\* passes them: the day a type does not use is -1
RecPatterns ==
  {<<"daily", -1, -1>>} \cup
  {<<"weekly", d, -1>> : d \in {1, 2}} \cup
  {<<"monthly", -1, d>> : d \in {30, 31}}

RecOwnerCall(U, L, P, M, B, cap) ==
  \/ \E u \in U, l \in L, p \in P, m \in M, todo \in B :
       recSeq < cap /\ AddRecurringReminder(u, u, l, p[1], m, p[2], p[3], todo)
  \/ \E i \in 1..cap, u \in U, l \in L, p \in P, m \in M :
       UpdateRecurringReminder(i, u, l, p[1], m, p[2], p[3])
  \/ \E i \in 1..cap, u \in U : DeleteRecurringReminder(i, u)

RecChecker(SendOutcomes, Outcomes) ==
  \/ \E t \in RecTimes : RecTickStart(t)
  \/ RecGetDueFail
  \/ RecGetDue
  \/ \E ok \in SendOutcomes : RecSend(ok)
  \/ \E ok \in Outcomes : UpdateRecurringReminderLastTriggered(ok)

\* recurring delivery: every failure of the notifier and of the store
NextRec ==
  \/ RecOwnerCall({1}, {"a"}, RecPatterns, TimesOfDay, BOOLEAN, MaxRecurring)
  \/ RecChecker(BOOLEAN, BOOLEAN)

SpecRec == Init /\ [][NextRec]_vars

\* the calls of two users on both tables, their return values recorded
InitOwner == InitStore /\ observing = TRUE

NextOwner ==
  \/ OwnerCall(Users, Times, Labels, BOOLEAN, MaxOwned)
  \/ RecOwnerCall(Users, Labels, RecPatterns, TimesOfDay, {FALSE}, MaxOwned)

SpecOwner == InitOwner /\ [][NextOwner]_vars

\* the calls of two users on the one-shot table, their return values
\* recorded, next to the one-shot checker
NextFinal ==
  \/ OwnerCall(Users, Times, Labels, {FALSE}, MaxOwned)
  \/ Checker(BOOLEAN, MarkOutcomes)

SpecFinal == InitOwner /\ [][NextFinal]_vars

\* SetUserTimezone: a name time.LoadLocation rejects is an error, any other
\* is stored for the user
SetUserTimezone(userID, tz) ==
  /\ DbAvailable
  /\ timezone' = IF tz \in Zones THEN UpsertZone(timezone, userID, tz)
                  ELSE timezone
  /\ ret' = ZoneReturned("SetUserTimezone", userID, tz \in Zones, tz)
  /\ UNCHANGED <<now, storeVars, tickVars, histVars, observing, procVars, lockVars, botVars, recVars>>

\* GetUserTimezone: the zone of the user's row; a user with no row gets the
\* default, which is inserted
GetUserTimezone(userID) ==
  /\ DbAvailable
  /\ timezone' = InsertDefaultZone(timezone, userID)
  /\ ret' = ZoneReturned("GetUserTimezone", userID, TRUE,
                         ZoneOf(timezone, userID))
  /\ UNCHANGED <<now, storeVars, tickVars, histVars, observing, procVars, lockVars, botVars, recVars>>

\* users set their timezone and own recurring definitions, next to the
\* recurring checker
NextZone ==
  \/ \E u \in Users, z \in ZoneInputs : SetUserTimezone(u, z)
  \/ RecOwnerCall(Users, {"a"}, {<<"daily", -1, -1>>, <<"weekly", 1, -1>>},
                  TimesOfDay, {FALSE}, MaxRecurring)
  \/ RecChecker({TRUE}, {TRUE})

SpecZone == Init /\ [][NextZone]_vars

\* reminders are created and never edited or deleted, next to the one-shot
\* checker with every failure of the notifier and of the store
CreateCall(U, T, L, B, cap) ==
  \E u \in U, t \in T, l \in L, todo \in B :
     seq < cap /\ AddReminder(u, u, t, l, todo)

NextDeliver ==
  \/ CreateCall(Users, Times, {"a"}, BOOLEAN, MaxReminders)
  \/ Checker(BOOLEAN, MarkOutcomes)

SpecDeliver == Init /\ [][NextDeliver]_vars

\* two users create, edit and delete definitions, their return values
\* recorded, next to the recurring checker
EditPatterns == {<<"daily", -1, -1>>, <<"weekly", 1, -1>>, <<"monthly", -1, 30>>}

NextEdit ==
  \/ RecOwnerCall(Users, Labels, EditPatterns, TimesOfDay, {FALSE}, MaxRecurring)
  \/ RecChecker({TRUE}, {TRUE})

SpecEdit == InitOwner /\ [][NextEdit]_vars

\* a user lists the reminders of a period; the rows returned are recorded
ListByPeriod(userID, start, end) ==
  /\ DbAvailable
  /\ ret' = IF observing
            THEN [op |-> "GetUserRemindersByPeriod", id |-> 0,
                  user |-> userID, ok |-> TRUE, start |-> start, end |-> end,
                  rows |-> GetUserRemindersByPeriod(reminders, userID, start,
                                                    end)]
            ELSE NoRet
  /\ UNCHANGED <<now, storeVars, tickVars, histVars, observing, procVars, lockVars, botVars, timezone, recVars>>

\* reminders and todos of two users are created, delivered and listed
NextList ==
  \/ CreateCall(Users, Times, {"a"}, BOOLEAN, MaxReminders)
  \/ \E u \in Users, start \in Times, end \in Times : ListByPeriod(u, start, end)
  \/ Checker({TRUE}, {"ok"})

SpecList == InitOwner /\ [][NextList]_vars

\* todos and reminders of both kinds are created, next to both checkers
NextTodo ==
  \/ CreateCall({1}, Times, {"a"}, BOOLEAN, MaxReminders)
  \/ RecOwnerCall({1}, {"a"}, {<<"daily", -1, -1>>}, TimesOfDay, BOOLEAN,
                  MaxRecurring)
  \/ Checker(BOOLEAN, {"ok"})
  \/ RecChecker(BOOLEAN, {TRUE})

SpecTodo == Init /\ [][NextTodo]_vars

\* ================================================= the adjust operation
\* llm.Operation, the fields an adjust reads; "" is a field the intent layer
\* left out
Operation(reminderID, datetime, label, recurringType, timeStr, dayOfWeek, dayOfMonth) ==
  [ReminderID |-> reminderID, Datetime |-> datetime, Label |-> label,
   RecurringType |-> recurringType, Time |-> timeStr,
   DayOfWeek |-> dayOfWeek, DayOfMonth |-> dayOfMonth]

\* strings.HasPrefix, on the id texts and callback data of the model
HasPrefix(s, prefix) ==
  CASE prefix = "rec_" -> s \in {"rec_1", "rec_x"}
    [] prefix = "delete_rec_" -> s \in {"delete_rec_1", "delete_rec_x"}
    [] prefix = "delete_" ->
         s \in {"delete_1", "delete_x", "delete_rec_1", "delete_rec_x"}
\* strings.TrimPrefix
TrimPrefix(s, prefix) ==
  IF ~HasPrefix(s, prefix) THEN s
  ELSE CASE prefix = "rec_" -> (IF s = "rec_1" THEN "1" ELSE "x")
         [] prefix = "delete_rec_" -> (IF s = "delete_rec_1" THEN "1" ELSE "x")
         [] prefix = "delete_" ->
              (CASE s = "delete_1" -> "1"
                 [] s = "delete_x" -> "x"
                 [] s = "delete_rec_1" -> "rec_1"
                 [] s = "delete_rec_x" -> "rec_x")
\* strings.HasPrefix(op.ReminderID, "rec_")
HasRecPrefix(s) == HasPrefix(s, "rec_")
\* strconv.ParseInt(s, 10, 64)
ParseInt(s) ==
  CASE s = "1" -> [err |-> FALSE, n |-> 1]
    [] OTHER -> [err |-> TRUE, n |-> 0]
\* the id an adjust or a delete parses: that of the text after "rec_" for a
\* rec_ id, that of the whole text for any other
ReminderIdOf(s) ==
  ParseInt(IF HasRecPrefix(s) THEN TrimPrefix(s, "rec_") ELSE s)
\* time.Parse("2006-01-02 15:04:05", op.Datetime)
ParseDatetime(s) ==
  CASE s = "2024-04-29 00:00:00" -> [err |-> FALSE, t |-> 0]
    [] s = "2024-04-29 00:00:30" -> [err |-> FALSE, t |-> 1]
    [] OTHER -> [err |-> TRUE, t |-> 0]
\* the column value of a time text "15:04": the minute of the day
TimeOfText(s) == CASE s = "00:00" -> 0 [] s = "00:01" -> 1
\* strconv.Atoi, on the number texts of the model
Atoi(s) ==
  CASE s = "0" -> [err |-> FALSE, n |-> 0]
    [] s = "1" -> [err |-> FALSE, n |-> 1]
    [] s = "2" -> [err |-> FALSE, n |-> 2]
    [] s = "6" -> [err |-> FALSE, n |-> 6]
    [] s = "7" -> [err |-> FALSE, n |-> 7]
    [] s = "9" -> [err |-> FALSE, n |-> 9]
    [] s = "15" -> [err |-> FALSE, n |-> 15]
    [] s = "31" -> [err |-> FALSE, n |-> 31]
    [] s = "32" -> [err |-> FALSE, n |-> 32]
    [] OTHER -> [err |-> TRUE, n |-> 0]
\* strings.TrimSpace, on the texts of the model
TrimSpace(s) ==
  CASE s = " " -> ""
    [] s = " Monday " -> "Monday"
    [] s = " mon" -> "mon"
    [] s = "pn " -> "pn"
    [] s = " 1 " -> "1"
    [] OTHER -> s
\* strings.ToLower, on the texts of the model
ToLower(s) ==
  CASE s = "Monday" -> "monday"
    [] s = "MON" -> "mon"
    [] s = "SUNDAY" -> "sunday"
    [] s = "Pn" -> "pn"
    [] s = "Sreda" -> "sreda"
    [] OTHER -> s
\* a parseDayOfWeek that knows the lower-case English names only
parseDayOfWeekEnglish(day) ==
  CASE day \in {"sunday", "sun"} -> 0
    [] day \in {"monday", "mon"} -> 1
    [] day \in {"tuesday", "tue"} -> 2
    [] day \in {"wednesday", "wed"} -> 3
    [] day \in {"thursday", "thu"} -> 4
    [] day \in {"friday", "fri"} -> 5
    [] day \in {"saturday", "sat"} -> 6
    [] OTHER -> -1

\* parseDayOfWeek: the English names, then the Russian ones, which the model
\* writes in Latin letters (voskresenye, vs, ponedelnik, pn, vtornik, vt,
\* sreda, sr, chetverg, cht, pyatnitsa, pt, subbota, sb)
parseDayOfWeek(day) ==
  LET d == ToLower(TrimSpace(day))
  IN CASE d \in {"sunday", "sun"} -> 0
       [] d \in {"monday", "mon"} -> 1
       [] d \in {"tuesday", "tue"} -> 2
       [] d \in {"wednesday", "wed"} -> 3
       [] d \in {"thursday", "thu"} -> 4
       [] d \in {"friday", "fri"} -> 5
       [] d \in {"saturday", "sat"} -> 6
       [] d \in {"voskresenye", "vs"} -> 0
       [] d \in {"ponedelnik", "pn"} -> 1
       [] d \in {"vtornik", "vt"} -> 2
       [] d \in {"sreda", "sr"} -> 3
       [] d \in {"chetverg", "cht"} -> 4
       [] d \in {"pyatnitsa", "pt"} -> 5
       [] d \in {"subbota", "sb"} -> 6
       [] OTHER -> -1

\* the messages an adjust handler replies with
InvalidIdReply == "invalid id format"
InvalidDatetimeReply == "invalid date/time format"
NothingToChangeReply == "nothing to change"
NotFoundReply == "not found or not yours"
UpdateFailedReply == "could not change"
AnswerReply == "answer"

\* an empty label is replaced like a given one
MergeReplacesLabel(found, op) ==
  LET timeStr == IF op.Time # "" THEN TimeOfText(op.Time) ELSE found.time
      recurringType ==
        IF op.RecurringType \in {"daily", "weekly", "monthly"}
        THEN op.RecurringType ELSE found.recurring_type
      dow == Atoi(op.DayOfWeek)
      dayOfWeek ==
        IF op.DayOfWeek # "" /\ recurringType = "weekly"
        THEN IF ~dow.err /\ dow.n >= 0 /\ dow.n <= 6 THEN dow.n
             ELSE IF parseDayOfWeek(op.DayOfWeek) >= 0
                  THEN parseDayOfWeek(op.DayOfWeek)
                  ELSE found.day_of_week
        ELSE found.day_of_week
      dom == Atoi(op.DayOfMonth)
      dayOfMonth ==
        IF op.DayOfMonth # "" /\ recurringType = "monthly"
           /\ ~dom.err /\ dom.n >= 1 /\ dom.n <= 31
        THEN dom.n ELSE found.day_of_month
  IN [label |-> op.Label, recurring_type |-> recurringType,
      time |-> timeStr, day_of_week |-> dayOfWeek,
      day_of_month |-> dayOfMonth]

\* processAdjustRecurringOperation, "Update fields if provided": the values
\* it passes to UpdateRecurringReminder
MergedFields(found, op) ==
  LET timeStr == IF op.Time # "" THEN TimeOfText(op.Time) ELSE found.time
      label == IF op.Label # "" THEN op.Label ELSE found.label
      recurringType ==
        IF op.RecurringType \in {"daily", "weekly", "monthly"}
        THEN op.RecurringType ELSE found.recurring_type
      dow == Atoi(op.DayOfWeek)
      dayOfWeek ==
        IF op.DayOfWeek # "" /\ recurringType = "weekly"
        THEN IF ~dow.err /\ dow.n >= 0 /\ dow.n <= 6 THEN dow.n
             ELSE IF parseDayOfWeek(op.DayOfWeek) >= 0
                  THEN parseDayOfWeek(op.DayOfWeek)
                  ELSE found.day_of_week
        ELSE found.day_of_week
      dom == Atoi(op.DayOfMonth)
      dayOfMonth ==
        IF op.DayOfMonth # "" /\ recurringType = "monthly"
           /\ ~dom.err /\ dom.n >= 1 /\ dom.n <= 31
        THEN dom.n ELSE found.day_of_month
  IN [label |-> label, recurring_type |-> recurringType, time |-> timeStr,
      day_of_week |-> dayOfWeek, day_of_month |-> dayOfMonth]

\* a handler replies without any call on the store
ReplyOnly(text) ==
  /\ reply' = text
  /\ UNCHANGED <<now, storeVars, tickVars, histVars, observing, procVars, lockVars, adj, ret,
                 timezone, recVars>>

\* processAdjustRecurringOperation up to its UpdateRecurringReminder call:
\* the definition is looked up among GetUserRecurringReminders(msg.From.ID)
processAdjustRecurringOperation(reminderID, op, userID) ==
  /\ DbAvailable
  /\ LET reminders_ == GetUserRecurringReminders(recurring, userID)
         hits == {k \in 1..Len(reminders_) : reminders_[k].id = reminderID}
     IN IF hits = {}
        THEN ReplyOnly(NotFoundReply)
        ELSE /\ adj' = [pc |-> "update", id |-> reminderID, user |-> userID,
                        op |-> op,
                        found |-> reminders_[CHOOSE k \in hits :
                                               \A j \in hits : k <= j]]
             /\ UNCHANGED <<now, storeVars, tickVars, histVars, observing, procVars, lockVars,
                            reply, ret, timezone, recVars>>

\* processAdjustRecurringOperation from its UpdateRecurringReminder call on
processAdjustRecurringUpdate ==
  /\ adj.pc = "update"
  /\ DbAvailable
  /\ LET m == MergedFields(adj.found, adj.op)
     IN recurring' = SetRecurringFields(recurring, adj.id, adj.user, m.label,
                                        m.recurring_type, m.time,
                                        m.day_of_week, m.day_of_month)
  /\ reply' = IF RecOwnerWhere(recurring, adj.id, adj.user) THEN AnswerReply
              ELSE UpdateFailedReply
  /\ ret' = Returned("UpdateRecurringReminder", adj.id, adj.user,
                     RecOwnerWhere(recurring, adj.id, adj.user))
  /\ adj' = [adj EXCEPT !.pc = "done"]
  /\ UNCHANGED <<now, storeVars, tickVars, histVars, observing, procVars, lockVars, timezone,
                 recSeq, recTickVars, recHistVars>>

\* processAdjustOperation: a rec_ id goes to processAdjustRecurringOperation,
\* any other id is a one-shot reminder's
processAdjustOperation(op, userID) ==
  /\ adj.pc # "update"
  /\ LET reminderID == ReminderIdOf(op.ReminderID)
         hasDate == op.Datetime # ""
         hasLabel == op.Label # ""
         reminderTime == ParseDatetime(op.Datetime)
     IN IF reminderID.err THEN ReplyOnly(InvalidIdReply)
        ELSE IF HasRecPrefix(op.ReminderID)
        THEN processAdjustRecurringOperation(reminderID.n, op, userID)
        ELSE IF hasDate /\ reminderTime.err
        THEN ReplyOnly(InvalidDatetimeReply)
        ELSE IF ~hasDate /\ ~hasLabel THEN ReplyOnly(NothingToChangeReply)
        ELSE
          /\ DbAvailable
          /\ reminders' =
               IF hasDate /\ hasLabel
               THEN SetReminderTimeAndLabel(reminders, reminderID.n, userID,
                                            reminderTime.t, op.Label)
               ELSE IF hasDate
               THEN SetReminderTime(reminders, reminderID.n, userID,
                                    reminderTime.t)
               ELSE SetReminderLabel(reminders, reminderID.n, userID,
                                     op.Label)
          /\ reply' = IF OwnerWhere(reminders, reminderID.n, userID)
                      THEN AnswerReply ELSE NotFoundReply
          /\ ret' = Returned(IF hasDate /\ hasLabel THEN "UpdateReminder"
                             ELSE IF hasDate THEN "UpdateReminderTime"
                             ELSE "UpdateReminderLabel",
                             reminderID.n, userID,
                             OwnerWhere(reminders, reminderID.n, userID))
          /\ UNCHANGED <<now, seq, txOpen, txMarked, tickVars, histVars,
                         observing, procVars, lockVars, adj, timezone, recVars>>

\* the adjust operations of a definition: at most two fields are given
RecurringOps ==
  {op \in {Operation(i, "", l, ty, m, dw, dm) :
             i \in {"rec_1"}, l \in {"", "b"},
             ty \in {"", "weekly", "monthly", "yearly"}, m \in {"", "00:01"},
             dw \in {"", "2", "sun", "9"}, dm \in {"", "15", "0"}} :
     Cardinality({f \in {"Label", "RecurringType", "Time", "DayOfWeek",
                         "DayOfMonth"} : op[f] # ""}) <= 2}
\* the adjust operations with no field, one field and an id that is no number
OneShotOps ==
  {Operation(i, d, l, "", "", "", "") :
     i \in {"1", "x"},
     d \in {"", "2024-04-29 00:00:30", "tomorrow"},
     l \in {"", "b"}}
FewRecurringOps ==
  {Operation(i, "", l, "", m, "", "") :
     i \in {"rec_1", "rec_x"}, l \in {"", "b"}, m \in {"", "00:01"}}
AdjustOps == OneShotOps \cup FewRecurringOps

\* the adjust handlers of the users U, their operations drawn from Ops
AdjustCall(U, Ops) ==
  \/ \E u \in U, op \in Ops :
       processAdjustOperation(op, u) /\ UNCHANGED batch
  \/ processAdjustRecurringUpdate /\ UNCHANGED batch

\* user 1 adjusts a definition, next to their other calls on it
NextPatch ==
  \/ RecOwnerCall({1}, {"a"}, {<<"daily", -1, -1>>, <<"weekly", 1, -1>>}, {0},
                  {FALSE}, MaxRecurring)
  \/ AdjustCall({1}, RecurringOps)

SpecPatch == Init /\ [][NextPatch]_vars

\* two users adjust the reminder and the definition of user 1
NextAdjust ==
  \/ CreateCall({1}, {0}, {"a"}, {FALSE}, 1)
  \/ RecOwnerCall({1}, {"a"}, {<<"weekly", 1, -1>>}, {0}, {FALSE},
                  MaxRecurring)
  \/ AdjustCall(Users, AdjustOps)

SpecAdjust == Init /\ [][NextAdjust]_vars

\* ================================================= the delete operation
\* a delete that takes the number of any id text for a one-shot reminder's
processDeleteIgnoresPrefix(op, userID) ==
  /\ adj.pc # "update"
  /\ LET reminderID == ReminderIdOf(op.ReminderID)
     IN IF reminderID.err THEN ReplyOnly(InvalidIdReply)
        ELSE /\ DbAvailable
             /\ reminders' = DeleteRow(reminders, reminderID.n, userID)
             /\ reply' = IF OwnerWhere(reminders, reminderID.n, userID)
                         THEN AnswerReply ELSE NotFoundReply
             /\ ret' = Returned("DeleteReminder", reminderID.n, userID,
                                OwnerWhere(reminders, reminderID.n, userID))
             /\ UNCHANGED <<now, seq, txOpen, txMarked, tickVars, histVars,
                            observing, procVars, lockVars, adj, timezone, recVars>>

\* processDeleteOperation: a rec_ id goes to processDeleteRecurringOperation,
\* any other id is a one-shot reminder's
processDeleteOperation(op, userID) ==
  /\ adj.pc # "update"
  /\ LET reminderID == ReminderIdOf(op.ReminderID)
     IN IF reminderID.err THEN ReplyOnly(InvalidIdReply)
        ELSE IF HasRecPrefix(op.ReminderID)
        THEN /\ DbAvailable
             /\ recurring' = SetInactive(recurring, reminderID.n, userID)
             /\ reply' = IF RecOwnerWhere(recurring, reminderID.n, userID)
                         THEN AnswerReply ELSE NotFoundReply
             /\ ret' = Returned("DeleteRecurringReminder", reminderID.n,
                                userID,
                                RecOwnerWhere(recurring, reminderID.n, userID))
             /\ UNCHANGED <<now, storeVars, tickVars, histVars, observing, procVars, lockVars,
                            adj, timezone, recSeq, recTickVars, recHistVars>>
        ELSE /\ DbAvailable
             /\ reminders' = DeleteRow(reminders, reminderID.n, userID)
             /\ reply' = IF OwnerWhere(reminders, reminderID.n, userID)
                         THEN AnswerReply ELSE NotFoundReply
             /\ ret' = Returned("DeleteReminder", reminderID.n, userID,
                                OwnerWhere(reminders, reminderID.n, userID))
             /\ UNCHANGED <<now, seq, txOpen, txMarked, tickVars, histVars,
                            observing, procVars, lockVars, adj, timezone, recVars>>

\* the notification sent when the message of the button cannot be deleted
DeletedReply == "deleted"

\* handleCallbackQuery: "delete_rec_<id>" is looked for before "delete_<id>";
\* requestOk is whether the message of the button could be deleted
handleCallbackQuery(callback, userID, requestOk) ==
  /\ adj.pc # "update"
  /\ IF HasPrefix(callback, "delete_rec_")
     THEN LET reminderID == ParseInt(TrimPrefix(callback, "delete_rec_"))
          IN IF reminderID.err THEN ReplyOnly(reply)
             ELSE
               /\ DbAvailable
               /\ recurring' = SetInactive(recurring, reminderID.n, userID)
               /\ reply' = IF ~RecOwnerWhere(recurring, reminderID.n, userID)
                           THEN NotFoundReply
                           ELSE IF requestOk THEN reply ELSE DeletedReply
               /\ ret' = Returned("DeleteRecurringReminder", reminderID.n,
                                  userID,
                                  RecOwnerWhere(recurring, reminderID.n,
                                                userID))
               /\ UNCHANGED <<now, storeVars, tickVars, histVars, observing, procVars, lockVars,
                              adj, timezone, recSeq, recTickVars,
                              recHistVars>>
     ELSE IF HasPrefix(callback, "delete_")
     THEN LET reminderID == ParseInt(TrimPrefix(callback, "delete_"))
          IN IF reminderID.err THEN ReplyOnly(reply)
             ELSE
               /\ DbAvailable
               /\ reminders' = DeleteRow(reminders, reminderID.n, userID)
               /\ reply' = IF ~OwnerWhere(reminders, reminderID.n, userID)
                           THEN NotFoundReply
                           ELSE IF requestOk THEN reply ELSE DeletedReply
               /\ ret' = Returned("DeleteReminder", reminderID.n, userID,
                                  OwnerWhere(reminders, reminderID.n, userID))
               /\ UNCHANGED <<now, seq, txOpen, txMarked, tickVars, histVars,
                              observing, procVars, lockVars, adj, timezone, recVars>>
     ELSE ReplyOnly(reply)

\* the id texts of adjust and delete operations and the callback data
IdTexts == {"1", "rec_1", "x", "rec_x"}
CallbackData == {"delete_1", "delete_rec_1", "delete_x", "delete_rec_x"}
PrefixOps ==
  {Operation(i, "", l, "", m, "", "") :
     i \in IdTexts, l \in {"", "b"}, m \in {"", "00:01"}}
DeleteOps == {Operation(i, "", "", "", "", "", "") : i \in IdTexts}

\* definitions are created and never edited or deleted through the store
RecCreateCall(U, L, P, M, B, cap) ==
  \E u \in U, l \in L, p \in P, m \in M, todo \in B :
     recSeq < cap /\ AddRecurringReminder(u, u, l, p[1], m, p[2], p[3], todo)

\* both tables hold a row with id 1; two users adjust and delete by id text
\* and by inline button
NextPrefix ==
  \/ CreateCall(Users, {0}, {"a"}, {FALSE}, 1)
  \/ RecCreateCall(Users, {"a"}, {<<"daily", -1, -1>>}, {0}, {FALSE},
                   MaxRecurring)
  \/ AdjustCall(Users, PrefixOps)
  \/ \E u \in Users, op \in DeleteOps :
       processDeleteOperation(op, u) /\ UNCHANGED batch
  \/ \E u \in Users, c \in CallbackData, requestOk \in BOOLEAN :
       handleCallbackQuery(c, u, requestOk) /\ UNCHANGED batch

SpecPrefix == Init /\ [][NextPrefix]_vars

\* ================================================= the create operations
InvalidCreateDatetimeReply == "invalid date/time format in create"
MissingTimeReply == "no time given"
InvalidDayOfWeekReply == "invalid day of week"
InvalidDayOfMonthReply == "invalid day of month"
InvalidRecurringTypeReply == "invalid recurring type"
CreatedRecurringReply == "recurring reminder created"
UnknownOperationReply == "unknown operation"
ListReply == "list"

\* processCreateOperation; the handler passes no todo flag
processCreateOperation(op, userID) ==
  LET reminderTime == ParseDatetime(op.Datetime)
  IN IF reminderTime.err THEN ReplyOnly(InvalidCreateDatetimeReply)
     ELSE /\ DbAvailable
          /\ seq' = seq + 1
          /\ reminders' = InsertRow(reminders, Autoincrement(reminders, seq), userID, userID,
                                    reminderTime.t, op.Label, FALSE)
          /\ reply' = AnswerReply
          /\ ret' = Returned("AddReminder", Autoincrement(reminders, seq), userID, TRUE)
          /\ UNCHANGED <<now, txOpen, txMarked, tickVars, histVars,
                         observing, procVars, lockVars, adj, timezone, recVars>>

\* the day a weekly create resolves: a number text in 0..6, else the name
CreateDayOfWeek(op) ==
  LET dow == Atoi(op.DayOfWeek)
  IN IF op.DayOfWeek = "" THEN -1
     ELSE IF ~dow.err /\ dow.n >= 0 /\ dow.n <= 6 THEN dow.n
     ELSE parseDayOfWeek(op.DayOfWeek)

\* the day a monthly create resolves: a number text in 1..31
CreateDayOfMonth(op) ==
  LET dom == Atoi(op.DayOfMonth)
  IN IF op.DayOfMonth # "" /\ ~dom.err /\ dom.n >= 1 /\ dom.n <= 31
     THEN dom.n ELSE -1

\* the time of day a recurring create stores: op.Time, else the "15:04" of
\* op.Datetime when that parses, else none
CreateTimeStr(op) ==
  IF op.Time # "" THEN [missing |-> FALSE, time |-> TimeOfText(op.Time)]
  ELSE IF op.Datetime # "" /\ ~ParseDatetime(op.Datetime).err
  THEN [missing |-> FALSE, time |-> Format1504(ParseDatetime(op.Datetime).t)]
  ELSE [missing |-> TRUE, time |-> 0]

\* the reply of the validation a recurring create fails, "" when it passes
CreateRecurringError(op) ==
  IF CreateTimeStr(op).missing THEN MissingTimeReply
  ELSE CASE op.RecurringType = "daily" -> ""
         [] op.RecurringType = "weekly" ->
              (IF CreateDayOfWeek(op) < 0 \/ CreateDayOfWeek(op) > 6
               THEN InvalidDayOfWeekReply ELSE "")
         [] op.RecurringType = "monthly" ->
              (IF CreateDayOfMonth(op) < 1 \/ CreateDayOfMonth(op) > 31
               THEN InvalidDayOfMonthReply ELSE "")
         [] OTHER -> InvalidRecurringTypeReply

\* processCreateRecurringOperation and addRecurringReminder; the days start
\* at -1 and only the day of the type is resolved
processCreateRecurringOperation(op, userID) ==
  IF CreateRecurringError(op) # "" THEN ReplyOnly(CreateRecurringError(op))
  ELSE /\ DbAvailable
       /\ recSeq' = recSeq + 1
       /\ recurring' =
            InsertRecurring(recurring, recSeq + 1, userID, userID, op.Label,
                            op.RecurringType, CreateTimeStr(op).time,
                            IF op.RecurringType = "weekly"
                            THEN CreateDayOfWeek(op) ELSE -1,
                            IF op.RecurringType = "monthly"
                            THEN CreateDayOfMonth(op) ELSE -1,
                            FALSE)
       /\ reply' = CreatedRecurringReply
       /\ ret' = Returned("AddRecurringReminder", recSeq + 1, userID, TRUE)
       /\ UNCHANGED <<now, storeVars, tickVars, histVars, observing, procVars, lockVars, adj,
                      timezone, recTickVars, recHistVars>>

\* ================================================= a batch of operations
\* llm.Operation with its action
WithAction(action, op) ==
  [Action |-> action, ReminderID |-> op.ReminderID,
   Datetime |-> op.Datetime, Label |-> op.Label,
   RecurringType |-> op.RecurringType, Time |-> op.Time,
   DayOfWeek |-> op.DayOfWeek, DayOfMonth |-> op.DayOfMonth]

BatchRunning == batch.i <= Len(batch.ops)

\* a return inside the loop that ends the whole batch
LeaveLoop(b) == [b EXCEPT !.i = Len(b.ops) + 1]

\* for _, op := range operations: a handler that returns ends its iteration
\* only
NextIteration(b) == [b EXCEPT !.i = @ + 1]

\* a message handler enters processOperations with the parser's operations
processOperations(operations, userID) ==
  /\ ~BatchRunning
  /\ adj.pc # "update"
  /\ batch' = [user |-> userID, ops |-> operations, i |-> 1]
  /\ UNCHANGED <<now, storeVars, tickVars, histVars, observing, procVars, lockVars, adj, reply,
                 ret, timezone, recVars>>

\* one iteration of the loop of processOperations: the switch on op.Action.
\* A recurring adjust that found its definition has its update still to do.
ProcessOperation ==
  /\ BatchRunning
  /\ adj.pc # "update"
  /\ LET op == batch.ops[batch.i]
     IN CASE op.Action = "create" ->
               seq < MaxReminders /\ processCreateOperation(op, batch.user)
          [] op.Action = "create_recurring" ->
               recSeq < MaxRecurring
                 /\ processCreateRecurringOperation(op, batch.user)
          [] op.Action = "adjust" -> processAdjustOperation(op, batch.user)
          [] op.Action = "delete" -> processDeleteOperation(op, batch.user)
          [] op.Action \in {"show_list", "show_recurring"} ->
               ReplyOnly(ListReply)
          [] OTHER -> ReplyOnly(UnknownOperationReply)
  /\ batch' = IF adj'.pc = "update" THEN batch ELSE NextIteration(batch)

\* the update of a recurring adjust of the batch, which ends its iteration
ProcessOperationUpdate ==
  /\ BatchRunning
  /\ processAdjustRecurringUpdate
  /\ batch' = NextIteration(batch)

\* the operations of the batches: valid ones and, for every validation of the
\* handlers, one that fails it
NoFields == Operation("", "", "", "", "", "", "")
ValidOps ==
  {WithAction("create",
              Operation("", "2024-04-29 00:00:30", "a", "", "", "", "")),
   WithAction("create_recurring",
              Operation("", "", "a", "weekly", "00:01", "mon", "")),
   WithAction("adjust", Operation("1", "", "b", "", "", "", "")),
   WithAction("adjust", Operation("rec_1", "", "b", "", "", "", "")),
   WithAction("delete", Operation("1", "", "", "", "", "", ""))}
InvalidOps ==
  {WithAction("create", Operation("", "tomorrow", "a", "", "", "", "")),
   WithAction("create_recurring",
              Operation("", "", "a", "daily", "", "", "")),
   WithAction("create_recurring",
              Operation("", "", "a", "yearly", "00:01", "", "")),
   WithAction("create_recurring",
              Operation("", "", "a", "weekly", "00:01", "someday", "")),
   WithAction("create_recurring",
              Operation("", "", "a", "weekly", "00:01", "", "")),
   WithAction("create_recurring",
              Operation("", "", "a", "monthly", "00:01", "", "32")),
   WithAction("adjust", Operation("x", "", "b", "", "", "", "")),
   WithAction("adjust", Operation("rec_x", "", "b", "", "", "", "")),
   WithAction("delete", Operation("rec_x", "", "", "", "", "", ""))}
BatchOps == ValidOps \cup InvalidOps
Batches ==
  {<<a>> : a \in BatchOps} \cup {<<a, b>> : a \in BatchOps, b \in BatchOps}

\* the messages of user 1, one batch of operations after the other
NextBatch ==
  \/ \E ops \in Batches : processOperations(ops, 1)
  \/ ProcessOperation
  \/ ProcessOperationUpdate

SpecBatch == Init /\ [][NextBatch]_vars

\* ================================================= the intent parser
\* ParseMessage, "Validate operations": the first operation that lacks a
\* required field is an error
LacksRequired(op) ==
  \/ op.Action = "create"
       /\ (TrimSpace(op.Label) = "" \/ TrimSpace(op.Datetime) = "")
  \/ op.Action = "create_recurring"
       /\ \/ TrimSpace(op.Label) = ""
          \/ TrimSpace(op.Time) = "" /\ TrimSpace(op.Datetime) = ""
          \/ TrimSpace(op.RecurringType) = ""
  \/ op.Action \in {"adjust", "delete"} /\ TrimSpace(op.ReminderID) = ""

\* ParseMessage: the (result, error) it returns for a response of the model.
\* A response that is no operation list (network or API error, timeout, no
\* choice, no JSON) is an error with an empty result; a list that fails the
\* validation is an error next to the list that was parsed.
ParseMessage(response) ==
  IF response.kind # "operations"
  THEN [err |-> TRUE, Operations |-> <<>>]
  ELSE [err |-> \E k \in 1..Len(response.operations) :
                   LacksRequired(response.operations[k]),
        Operations |-> response.operations]

\* a handler that goes on with the result whatever the error
ProcessesDespiteError(llmOutput) == FALSE

\* handleTextMessage: if err != nil, reply and return
ReturnsOnError(llmOutput) == llmOutput.err

ParseFailedReply == "could not parse the request"

\* handleTextMessage: the user's reminders are read for the prompt, the
\* message is parsed, and the operations are processed unless parsing failed
handleTextMessage(response, userID) ==
  /\ DbAvailable
  /\ LET llmOutput == ParseMessage(response)
     IN IF ReturnsOnError(llmOutput)
        THEN /\ reply' = ParseFailedReply
             /\ UNCHANGED <<now, storeVars, tickVars, histVars, observing, procVars, lockVars,
                            adj, batch, ret, timezone, recVars>>
        ELSE processOperations(llmOutput.Operations, userID)

\* the responses of the model: failures, and lists of one or two operations
\* among valid ones and ones that lack a required field
IncompleteOps ==
  {WithAction("create",
              Operation("", "2024-04-29 00:00:30", " ", "", "", "", "")),
   WithAction("create", Operation("", "", "a", "", "", "", "")),
   WithAction("create_recurring",
              Operation("", "", "a", "", "00:01", "", "")),
   WithAction("adjust", Operation("", "", "b", "", "", "", "")),
   WithAction("delete", Operation("", "", "", "", "", "", ""))}
ParserOps == ValidOps \cup IncompleteOps
Responses ==
  {[kind |-> k, operations |-> <<>>] : k \in {"error", "timeout"}} \cup
  {[kind |-> "operations", operations |-> ops] :
     ops \in {<<a>> : a \in ParserOps}
               \cup {<<a, b>> : a \in ParserOps, b \in ParserOps}}

\* the text messages of user 1 and the batches they start
NextParse ==
  \/ \E response \in Responses : handleTextMessage(response, 1)
  \/ ProcessOperation
  \/ ProcessOperationUpdate

SpecParse == Init /\ [][NextParse]_vars

\* ================================================= weekly creates
\* the day-of-week texts of a weekly create: every name and number of the
\* seven days, names in other case and with spaces around, and texts that
\* name no day
DayNameTexts ==
  {"sunday", "sun", "voskresenye", "vs", "monday", "mon", "ponedelnik", "pn",
   "tuesday", "tue", "vtornik", "vt", "wednesday", "wed", "sreda", "sr",
   "thursday", "thu", "chetverg", "cht", "friday", "fri", "pyatnitsa", "pt",
   "saturday", "sat", "subbota", "sb"}
DayNumberTexts == {"0", "1", "2", "6"}
DayVariantTexts == {" Monday ", "MON", " mon", "Pn", "pn ", "SUNDAY", "Sreda"}
NoDayTexts == {"", " ", "someday", "7", "9", " 1 "}
DayTexts ==
  DayNameTexts \cup DayNumberTexts \cup DayVariantTexts \cup NoDayTexts

\* the number of definitions the weekly creates may store
MaxCreated == 2

\* user 1 creates weekly definitions; the label of each is the text of its day
NextWeekday ==
  \E d \in DayTexts :
     /\ processCreateRecurringOperation(
          Operation("", "", d, "weekly", "00:01", d, ""), 1)
     /\ recSeq' <= MaxCreated
     /\ UNCHANGED batch

SpecWeekday == Init /\ [][NextWeekday]_vars

\* ================================================= projection of occurrences
\* The dates of a listing come from time.Parse("2006-01-02", ...): midnights,
\* which the model counts in days from the epoch date.
Midnight(date) == date * SlotsPerDay
\* the dates a listing may name: 29 and 30 April, 1 and 2 May 2024
MaxDate == 3
Dates == 0..MaxDate

\* RecurringEvent{ID, Label, Time, Date}
RecurringEvent(reminder, currentDate) ==
  [ID |-> reminder.id, Label |-> reminder.label, Time |-> reminder.time,
   Date |-> currentDate]

\* an applicable that leaves out the definitions already triggered that day
applicableUntriggered(reminder, currentDate) ==
  /\ \/ reminder.last_triggered = NoTime
     \/ DayIndex(reminder.last_triggered) # currentDate
  /\ CASE reminder.recurring_type = "daily" -> TRUE
       [] reminder.recurring_type = "weekly" ->
            reminder.day_of_week = Weekday(Midnight(currentDate))
       [] reminder.recurring_type = "monthly" ->
            reminder.day_of_month = DayOfMonth(Midnight(currentDate))
       [] OTHER -> FALSE

\* the switch on reminder.RecurringType, with dayOfWeek and dayOfMonth of
\* currentDate
applicable(reminder, currentDate) ==
  CASE reminder.recurring_type = "daily" -> TRUE
    [] reminder.recurring_type = "weekly" ->
         reminder.day_of_week = Weekday(Midnight(currentDate))
    [] reminder.recurring_type = "monthly" ->
         reminder.day_of_month = DayOfMonth(Midnight(currentDate))
    [] OTHER -> FALSE

\* for currentDate := start; currentDate.Before(end); currentDate += 24h:
\* the applicable definitions of each date, in the order of the query
RECURSIVE EventsFrom(_, _, _)
EventsFrom(recurringReminders, currentDate, end) ==
  IF ~(currentDate < end) THEN <<>>
  ELSE LET hits == SelectSeq(recurringReminders,
                             LAMBDA r : applicable(r, currentDate))
       IN [k \in 1..Len(hits) |-> RecurringEvent(hits[k], currentDate)]
            \o EventsFrom(recurringReminders, currentDate + 1, end)

\* a projection whose events outlive the call: those of the last call are
\* still in the slice the next one appends to
getApplicableKeepingEvents(tbl, userID, start, end) ==
  (IF ret.op = "getApplicableRecurringReminders" THEN ret.rows ELSE <<>>)
    \o EventsFrom(GetUserRecurringReminders(tbl, userID), start, end)

getApplicableRecurringReminders(tbl, userID, start, end) ==
  EventsFrom(GetUserRecurringReminders(tbl, userID), start, end)

\* a call of the projection; what it returned is recorded, and next to it
\* whether the call before it was the same call on the same definitions, and
\* what that one returned
ProjectCall(userID, start, end) ==
  /\ DbAvailable
  /\ LET defs == GetUserRecurringReminders(recurring, userID)
         again == /\ ret.op = "getApplicableRecurringReminders"
                  /\ ret.user = userID /\ ret.start = start /\ ret.end = end
                  /\ ret.defs = defs
     IN ret' = [op |-> "getApplicableRecurringReminders", id |-> 0,
                user |-> userID, ok |-> TRUE, start |-> start, end |-> end,
                defs |-> defs, again |-> again,
                previous |-> IF again THEN ret.rows ELSE <<>>,
                rows |-> getApplicableRecurringReminders(recurring, userID,
                                                         start, end)]
  /\ UNCHANGED <<now, storeVars, tickVars, histVars, observing, procVars, lockVars, botVars, timezone, recVars>>

\* the store's UpdateRecurringReminderLastTriggered, called as the checker
\* calls it after a send
MarkTriggered(id, lastTriggered) ==
  /\ DbAvailable
  /\ recurring' = SetLastTriggered(recurring, id, lastTriggered)
  /\ UNCHANGED <<now, storeVars, tickVars, histVars, observing, procVars, lockVars, botVars, timezone, ret, recSeq,
                 recTickVars, recHistVars>>

\* the number of definitions of the projection's store
MaxProjected == 2
\* every day, Tuesdays (30 April), the first of the month (1 May)
ProjectedPatterns == {<<"daily", -1, -1>>, <<"weekly", 2, -1>>, <<"monthly", -1, 1>>}

\* one day, two days across the end of the month, no day, and an end before
\* the start
ProjectedRanges == {<<0, 1>>, <<1, 3>>, <<2, 2>>, <<3, 1>>}

\* two users create and delete definitions, definitions are marked as
\* triggered on 30 April, and the users project ranges of dates
NextProject ==
  \/ RecCreateCall(Users, {"a"}, ProjectedPatterns, TimesOfDay, {FALSE}, MaxProjected)
  \/ \E i \in 1..MaxProjected, u \in Users : DeleteRecurringReminder(i, u)
  \/ \E i \in 1..MaxProjected : MarkTriggered(i, Midnight(1))
  \/ \E u \in Users, range \in ProjectedRanges :
       ProjectCall(u, range[1], range[2])

SpecProject == Init /\ [][NextProject]_vars

\* ================================================= the show_list operation
\* llm.Operation, the fields a show_list reads
ShowListOperation(startDate, endDate) ==
  [Action |-> "show_list", StartDate |-> startDate, EndDate |-> endDate]

\* time.Parse("2006-01-02", s), on the date texts of the model
ParseDate(s) ==
  CASE s = "2024-04-29" -> [err |-> FALSE, date |-> 0]
    [] s = "2024-04-30" -> [err |-> FALSE, date |-> 1]
    [] s = "2024-05-01" -> [err |-> FALSE, date |-> 2]
    [] s = "2024-05-02" -> [err |-> FALSE, date |-> 3]
    [] OTHER -> [err |-> TRUE, date |-> 0]

\* t.Format("02.01.2006"): the text of day, month and year, here the three
\* numbers in the order of the text
Format02012006(t) ==
  LET n == EpochDate.day - 1 + DayIndex(t)
  IN <<(n % EpochDate.monthLen) + 1, 4 + (n \div EpochDate.monthLen), 2024>>

\* the order of two texts of the same length: the first place they differ in
TextLess(a, b) ==
  \E k \in 1..Len(a) :
     /\ a[k] < b[k]
     /\ \A j \in 1..(k - 1) : a[j] = b[j]

\* the order of the calendar on the three numbers of a date text
YearMonthDayLess(a, b) == TextLess(<<a[3], a[2], a[1]>>, <<b[3], b[2], b[1]>>)

\* a line of the list: its date text (none in the list of a single day), the
\* box of a todo, its time text (the minute of the day, none for a todo),
\* its label and the mark of a recurring occurrence
NoDateText == <<>>
TodoLine(dateText, label, regular) ==
  [date |-> dateText, box |-> TRUE, time |-> -1, label |-> label,
   regular |-> regular]
TimedLine(dateText, timeText, label, regular) ==
  [date |-> dateText, box |-> FALSE, time |-> timeText, label |-> label,
   regular |-> regular]

\* the order of the texts of two labels
LabelLess(a, b) == a = "a" /\ b = "b"

\* extractTimeFromLine(reminders[i]) < extractTimeFromLine(reminders[j])
TimeLess(a, b) == a.time < b.time

\* reminders[i][11:] < reminders[j][11:]: the time, then the label, then
\* the mark of a recurring occurrence, which makes the text longer
RestLess(a, b) ==
  \/ a.time < b.time
  \/ (a.time = b.time /\ LabelLess(a.label, b.label))
  \/ (a.time = b.time /\ a.label = b.label /\ ~a.regular /\ b.regular)

\* the less function a sort is called with
Less(by, a, b) ==
  CASE by = "time" -> TimeLess(a, b)
    [] by = "rest" -> RestLess(a, b)
    [] by = "text" -> TextLess(a, b)

\* sort.Slice and sort.Strings on a short slice (an insertion sort): the
\* elements in the order of less, equal ones in the order they had
SortSlice(s, by) ==
  LET before(k) == {j \in 1..Len(s) :
                      \/ Less(by, s[j], s[k])
                      \/ (~Less(by, s[k], s[j]) /\ j < k)}
  IN [p \in 1..Len(s) |->
        s[CHOOSE k \in 1..Len(s) : Cardinality(before(k)) = p - 1]]

\* sortLinesByTimeWithTodos: the lines that start with a box, then the
\* others by their time
sortLinesByTimeWithTodos(lines) ==
  SelectSeq(lines, LAMBDA l : l.box)
    \o SortSlice(SelectSeq(lines, LAMBDA l : ~l.box), "time")

\* sort.Strings(dates)
sortStrings(dates) == SortSlice(dates, "text")

\* the date texts of the lines, each once (the keys of dateGroups)
RECURSIVE DateKeys(_)
DateKeys(lines) ==
  IF lines = <<>> THEN <<>>
  ELSE LET rest == DateKeys(Tail(lines))
       IN IF \E k \in 1..Len(rest) : rest[k] = Head(lines).date THEN rest
          ELSE <<Head(lines).date>> \o rest

\* the lines of the groups of the dates, group after group
RECURSIVE JoinGroups(_, _)
JoinGroups(lines, dates) ==
  IF dates = <<>> THEN <<>>
  ELSE LET group == SelectSeq(lines, LAMBDA l : l.date = Head(dates))
       IN SelectSeq(group, LAMBDA l : l.box)
            \o SortSlice(SelectSeq(group, LAMBDA l : ~l.box), "rest")
            \o JoinGroups(lines, Tail(dates))

\* sortLinesByDateTimeWithTodos: the lines grouped by their first ten
\* characters, in each group the lines with a box and then the others by the
\* text after the date, the groups in the order of sort.Strings
sortLinesByDateTimeWithTodos(lines) ==
  JoinGroups(lines, sortStrings(DateKeys(lines)))

\* formatDayTitle
formatDayTitle(date) ==
  IF date = DayIndex(now) THEN <<"today">>
  ELSE IF date = DayIndex(now) + 1 THEN <<"tomorrow">>
  ELSE <<"day", Weekday(Midnight(date)), Format02012006(Midnight(date))>>

AllTitle == <<"all">>
RangeTitle(start, endParsed) ==
  <<"range", Format02012006(Midnight(start)), Format02012006(Midnight(endParsed))>>
\* the replies of a show_list: a title or the text of an error, and the
\* lines under it
ListText(title, lines) == [title |-> title, lines |-> lines, none |-> FALSE]
NoRemindersYet(title) == [title |-> title, lines |-> <<>>, none |-> TRUE]
InvalidStartDateReply == ListText(<<"invalid start date">>, <<>>)
InvalidEndDateReply == ListText(<<"invalid end date">>, <<>>)

\* the lines of the list of a single day: the time only
DayLines(rows, recurringEvents) ==
  [k \in 1..Len(rows) |->
     IF rows[k].is_todo THEN TodoLine(NoDateText, rows[k].label, FALSE)
     ELSE TimedLine(NoDateText, Format1504(rows[k].reminder_time),
                    rows[k].label, FALSE)]
    \o [k \in 1..Len(recurringEvents) |->
          TimedLine(NoDateText, recurringEvents[k].Time,
                    recurringEvents[k].Label, TRUE)]

\* the lines with date and time
DateLines(rows, recurringEvents) ==
  [k \in 1..Len(rows) |->
     IF rows[k].is_todo
     THEN TodoLine(Format02012006(rows[k].reminder_time), rows[k].label, FALSE)
     ELSE TimedLine(Format02012006(rows[k].reminder_time),
                    Format1504(rows[k].reminder_time), rows[k].label, FALSE)]
    \o [k \in 1..Len(recurringEvents) |->
          TimedLine(Format02012006(Midnight(recurringEvents[k].Date)),
                    recurringEvents[k].Time, recurringEvents[k].Label, TRUE)]

\* a range that ends where the end date begins
ShowListEndAtEndDate(op) ==
  IF op.EndDate # "" THEN ParseDate(op.EndDate).date
  ELSE ParseDate(op.StartDate).date + 1

\* the range of a show_list with a start date: [start, end)
ShowListEnd(op) ==
  IF op.EndDate # "" THEN ParseDate(op.EndDate).date + 1
  ELSE ParseDate(op.StartDate).date + 1

\* processShowListOperation; the events of getApplicableRecurringReminders
\* have no IsTodo set
processShowListOperation(op, userID) ==
  /\ DbAvailable
  /\ LET start == ParseDate(op.StartDate).date
         end == ShowListEnd(op)
         title == IF op.StartDate = "" THEN AllTitle
                  ELSE IF op.EndDate # "" /\ op.EndDate # op.StartDate
                  THEN RangeTitle(start, ParseDate(op.EndDate).date)
                  ELSE formatDayTitle(start)
         rows == IF op.StartDate # ""
                 THEN GetUserRemindersByPeriod(reminders, userID,
                                               Midnight(start), Midnight(end))
                 ELSE GetUserReminders(reminders, userID)
         recurringEvents ==
           IF op.StartDate # ""
           THEN getApplicableRecurringReminders(recurring, userID, start, end)
           ELSE <<>>
     IN reply' =
          IF op.StartDate # "" /\ ParseDate(op.StartDate).err
          THEN InvalidStartDateReply
          ELSE IF op.StartDate # "" /\ op.EndDate # ""
                    /\ ParseDate(op.EndDate).err
          THEN InvalidEndDateReply
          ELSE IF Len(rows) = 0 /\ Len(recurringEvents) = 0
          THEN NoRemindersYet(title)
          ELSE IF op.StartDate # "" /\ op.EndDate = ""
          THEN ListText(title,
                        sortLinesByTimeWithTodos(DayLines(rows, recurringEvents)))
          ELSE ListText(title,
                        sortLinesByDateTimeWithTodos(
                          DateLines(rows, recurringEvents)))
  /\ UNCHANGED <<now, storeVars, tickVars, histVars, observing, procVars, lockVars, adj, ret,
                 timezone, recVars>>

\* the times of the reminders of the lists: 29 April 00:01, 30 April 00:00
\* and 00:01, 1 May 00:00
ShowTimes ==
  {SlotsPerMinute, Midnight(1), Midnight(1) + SlotsPerMinute, Midnight(2)}
\* the dates of the lists
ShowDates ==
  {<<"", "">>, <<"", "2024-04-30">>, <<"2024-04-30", "">>,
   <<"2024-04-30", "2024-04-30">>, <<"2024-04-29", "2024-05-01">>,
   <<"2024-05-01", "2024-04-30">>, <<"tomorrow", "">>,
   <<"2024-04-30", "tomorrow">>}
ShowOps == {ShowListOperation(d[1], d[2]) : d \in ShowDates}

\* processOperations on the one operation of a message that asks for a list
ShowListCall(op, userID) ==
  /\ batch' = [user |-> userID, ops |-> <<op>>, i |-> 2]
  /\ processShowListOperation(op, userID)

\* two users create reminders and todos, user 1 creates a definition and
\* asks for lists
NextShow ==
  \/ CreateCall(Users, ShowTimes, {"a"}, BOOLEAN, MaxReminders)
  \/ RecCreateCall({1}, {"b"}, ProjectedPatterns, {1}, {FALSE}, MaxRecurring)
  \/ \E op \in ShowOps : ShowListCall(op, 1)

SpecShow == Init /\ [][NextShow]_vars

\* ================================================= the lock of the repository
\* Every method of the repository starts with r.lock.Lock() and
\* defer r.lock.Unlock(): a goroutine calls a method, waits for the mutex,
\* runs the statement of the method and unlocks as the method returns.
Call(method, id, userID) == [method |-> method, id |-> id, user |-> userID]

\* the user of the update a processUpdate goroutine handles
UpdateFrom(g) == IF g = "processUpdate1" THEN 1 ELSE 2

\* the methods each goroutine calls, with their arguments
CallsOf(g) ==
  CASE g = "checkReminders" ->
         {Call("GetDueReminders", 0, 0)}
           \cup {Call("MarkMultipleAsNotified", i, 0) : i \in Ids}
    [] g = "startRecurringChecker" ->
         {Call("GetDueRecurringReminders", 0, 0)}
           \cup {Call("UpdateRecurringReminderLastTriggered", i, 0) : i \in RecIds}
    [] OTHER ->
         {Call("AddReminder", 0, UpdateFrom(g)),
          Call("AddRecurringReminder", 0, UpdateFrom(g)),
          Call("GetUserReminders", 0, UpdateFrom(g))}
           \cup {Call("DeleteReminder", i, UpdateFrom(g)) : i \in Ids}
           \cup {Call("DeleteRecurringReminder", i, UpdateFrom(g)) : i \in RecIds}

\* a mutex that never makes a caller wait
MutexNeverHeld == TRUE

\* r.lock.Lock() returns when the mutex is unlocked
MutexFree == ~lock

\* a goroutine calls a method of the repository and arrives at r.lock.Lock()
CallMethod(g, call) ==
  /\ inCall[g].pc = "out"
  /\ inCall' = [inCall EXCEPT ![g] = [pc |-> "lock", call |-> call]]
  /\ UNCHANGED <<now, storeVars, tickVars, histVars, observing, procVars, lock, botVars,
                 ret, timezone, recVars>>

\* r.lock.Lock()
Lock(g) ==
  /\ inCall[g].pc = "lock"
  /\ MutexFree
  /\ lock' = TRUE
  /\ inCall' = [inCall EXCEPT ![g].pc = "in"]
  /\ UNCHANGED <<now, storeVars, tickVars, histVars, observing, procVars, botVars, ret,
                 timezone, recVars>>

\* the rows of reminders after the statement of a call; an INSERT beyond the
\* bound of the table fails
RemindersAfter(call) ==
  CASE call.method = "AddReminder" /\ seq < MaxReminders ->
         InsertRow(reminders, Autoincrement(reminders, seq), call.user, call.user, 1, "a", FALSE)
    [] call.method = "DeleteReminder" ->
         DeleteRow(reminders, call.id, call.user)
    [] call.method = "MarkMultipleAsNotified" ->
         SetNotified(reminders, {call.id})
    [] OTHER -> reminders

\* the rows of recurring_reminders after the statement of a call
RecurringAfter(call) ==
  CASE call.method = "AddRecurringReminder" /\ recSeq < MaxRecurring ->
         InsertRecurring(recurring, recSeq + 1, call.user, call.user, "a",
                         "daily", 0, -1, -1, FALSE)
    [] call.method = "DeleteRecurringReminder" ->
         SetInactive(recurring, call.id, call.user)
    [] call.method = "UpdateRecurringReminderLastTriggered" ->
         SetLastTriggered(recurring, call.id, 0)
    [] OTHER -> recurring

\* the statement of the method, run between Lock and the deferred Unlock
Statement(g) ==
  /\ inCall[g].pc = "in"
  /\ DbAvailable
  /\ reminders' = RemindersAfter(inCall[g].call)
  /\ seq' = IF inCall[g].call.method = "AddReminder" /\ seq < MaxReminders
            THEN seq + 1 ELSE seq
  /\ recurring' = RecurringAfter(inCall[g].call)
  /\ recSeq' = IF inCall[g].call.method = "AddRecurringReminder"
                    /\ recSeq < MaxRecurring
               THEN recSeq + 1 ELSE recSeq
  /\ inCall' = [inCall EXCEPT ![g].pc = "unlock"]
  /\ UNCHANGED <<now, txOpen, txMarked, tickVars, histVars, observing, procVars, lock,
                 botVars, ret, timezone, recTickVars, recHistVars>>

\* defer r.lock.Unlock()
Unlock(g) ==
  /\ inCall[g].pc = "unlock"
  /\ lock' = FALSE
  /\ inCall' = [inCall EXCEPT ![g] = OutOfCall]
  /\ UNCHANGED <<now, storeVars, tickVars, histVars, observing, procVars, botVars, ret,
                 timezone, recVars>>

\* the checkers and two handlers call the repository concurrently
NextLock ==
  \/ \E g \in Goroutines : \E call \in CallsOf(g) : CallMethod(g, call)
  \/ \E g \in Goroutines : Lock(g)
  \/ \E g \in Goroutines : Statement(g)
  \/ \E g \in Goroutines : Unlock(g)

SpecLock == Init /\ [][NextLock]_vars

\* ================================================= shutdown
\* main: <-sigChan, then reminderBot.Stop(), which closes b.stopChan
Stop ==
  /\ ~stopChan
  /\ stopChan' = TRUE
  /\ UNCHANGED <<now, storeVars, tickVars, histVars, observing, exited,
                 lockVars, botVars, ret, timezone, recVars>>

\* main returns after Stop(): the process ends, and every goroutine with it
MainReturns ==
  /\ stopChan
  /\ ~exited
  /\ exited' = TRUE
  /\ UNCHANGED <<now, storeVars, tickVars, histVars, observing, stopChan,
                 lockVars, botVars, ret, timezone, recVars>>

\* checkReminders: case <-b.stopChan: return
CheckRemindersReturns ==
  /\ pc = "idle"
  /\ stopChan
  /\ pc' = "returned"
  /\ UNCHANGED <<now, storeVars, due, idx, reminderIDs, histVars, observing,
                 procVars, lockVars, botVars, ret, timezone, recVars>>

\* startRecurringChecker: case <-b.stopChan: return
RecurringCheckerReturns ==
  /\ rpc = "idle"
  /\ stopChan
  /\ rpc' = "returned"
  /\ UNCHANGED <<now, storeVars, tickVars, histVars, observing, procVars,
                 lockVars, botVars, ret, timezone, recurring, recSeq, rnow,
                 rdue, ridx, recHistVars>>

\* the goroutines of the process run until main returns; a select with both
\* stopChan and ticker.C ready may take either case
NextStop ==
  \/ /\ ~exited
     /\ \/ CreateCall({1}, {0}, {"a"}, {FALSE}, MaxReminders)
        \/ RecCreateCall({1}, {"a"}, {<<"daily", -1, -1>>}, {0}, {FALSE}, MaxRecurring)
        \/ Checker({TRUE}, {"ok"})
        \/ RecChecker({TRUE}, {TRUE})
        \/ CheckRemindersReturns
        \/ RecurringCheckerReturns
  \/ Stop
  \/ MainReturns

SpecStop == Init /\ [][NextStop]_vars

\* ================================================= two users, one id
\* the operations of two users on the ids of both tables: every user creates,
\* adjusts and deletes by the same id texts
StrangerOps ==
  {WithAction("create",
              Operation("", "2024-04-29 00:00:30", "a", "", "", "", "")),
   WithAction("create_recurring",
              Operation("", "", "a", "daily", "00:01", "", "")),
   WithAction("adjust", Operation("1", "", "b", "", "", "", "")),
   WithAction("adjust", Operation("1", "2024-04-29 00:00:30", "", "", "", "", "")),
   WithAction("adjust", Operation("1", "2024-04-29 00:00:30", "b", "", "", "", "")),
   WithAction("adjust", Operation("1", "tomorrow", "", "", "", "", "")),
   WithAction("adjust", Operation("1", "", "", "", "", "", "")),
   WithAction("adjust", Operation("rec_1", "", "b", "", "", "", "")),
   WithAction("delete", Operation("1", "", "", "", "", "", "")),
   WithAction("delete", Operation("rec_1", "", "", "", "", "", ""))}

\* the messages of both users, one operation each
NextStranger ==
  \/ \E u \in Users, op \in StrangerOps : processOperations(<<op>>, u)
  \/ ProcessOperation
  \/ ProcessOperationUpdate

SpecStranger == Init /\ [][NextStranger]_vars

\* ================================================= the lists of a user
\* a user lists their reminders; the rows returned are recorded
ListActive(userID) ==
  /\ DbAvailable
  /\ ret' = IF observing
            THEN [op |-> "GetUserReminders", id |-> 0, user |-> userID,
                  ok |-> TRUE, rows |-> GetUserReminders(reminders, userID)]
            ELSE NoRet
  /\ UNCHANGED <<now, storeVars, tickVars, histVars, observing, procVars, lockVars, botVars, timezone, recVars>>

\* a user lists their recurring definitions; the rows returned are recorded
ListRecurring(userID) ==
  /\ DbAvailable
  /\ ret' = IF observing
            THEN [op |-> "GetUserRecurringReminders", id |-> 0,
                  user |-> userID, ok |-> TRUE,
                  rows |-> GetUserRecurringReminders(recurring, userID)]
            ELSE NoRet
  /\ UNCHANGED <<now, storeVars, tickVars, histVars, observing, procVars, lockVars, botVars, timezone, recVars>>

\* reminders, todos and definitions of two users are created, delivered,
\* deleted and listed
NextVisible ==
  \/ CreateCall(Users, Times, {"a"}, BOOLEAN, MaxReminders)
  \/ RecCreateCall(Users, {"a"}, {<<"daily", -1, -1>>}, {0}, {FALSE},
                   MaxRecurring)
  \/ \E i \in RecIds, u \in Users : DeleteRecurringReminder(i, u)
  \/ \E u \in Users : ListActive(u)
  \/ \E u \in Users, start \in Times, end \in Times : ListByPeriod(u, start, end)
  \/ \E u \in Users : ListRecurring(u)
  \/ Checker({TRUE}, {"ok"})

SpecVisible == InitOwner /\ [][NextVisible]_vars

\* ================================================= the /timezone command
CurrentTimezoneReply == "current timezone"
InvalidTimezoneReply == "invalid timezone"
TimezoneSetReply == "timezone set"

\* handleTimezoneCommand: no argument shows the user's timezone, any other
\* argument is set as the user's timezone
handleTimezoneCommand(arguments, userID) ==
  /\ DbAvailable
  /\ LET args == TrimSpace(arguments)
     IN IF args = ""
        THEN /\ timezone' = InsertDefaultZone(timezone, userID)
             /\ ret' = ZoneReturned("GetUserTimezone", userID, TRUE,
                                    ZoneOf(timezone, userID))
             /\ reply' = CurrentTimezoneReply
        ELSE /\ timezone' = IF args \in Zones
                            THEN UpsertZone(timezone, userID, args)
                            ELSE timezone
             /\ ret' = ZoneReturned("SetUserTimezone", userID, args \in Zones,
                                    args)
             /\ reply' = IF args \in Zones THEN TimezoneSetReply
                         ELSE InvalidTimezoneReply
  /\ UNCHANGED <<now, storeVars, tickVars, histVars, observing, procVars, lockVars, adj, batch, recVars>>

\* the arguments of /timezone: none, blanks, valid and invalid names
TimezoneArguments == {"", " "} \cup ZoneInputs \cup {"Moscow"}

\* two users read and set their timezone, through the store and by command
NextPreference ==
  \/ \E u \in Users : GetUserTimezone(u)
  \/ \E u \in Users, z \in ZoneInputs \cup {"Moscow"} : SetUserTimezone(u, z)
  \/ \E u \in Users, a \in TimezoneArguments : handleTimezoneCommand(a, u)

SpecPreference == InitOwner /\ [][NextPreference]_vars

\* ================================================= concurrent adjusts
\* go b.processUpdate(update): the goroutines that handle updates at once
Handlers == {"processUpdate1", "processUpdate2"}

\* processAdjustRecurringOperation in goroutine g up to its
\* UpdateRecurringReminder call: the definition found is a local of g
AdjustRecurringLookup(g, reminderID, op, userID) ==
  /\ inCall[g].pc = "out"
  /\ DbAvailable
  /\ LET reminders_ == GetUserRecurringReminders(recurring, userID)
         hits == {k \in 1..Len(reminders_) : reminders_[k].id = reminderID}
     IN IF hits = {}
        THEN /\ reply' = NotFoundReply
             /\ inCall' = [inCall EXCEPT ![g] =
                             [pc |-> "done", id |-> reminderID,
                              user |-> userID, op |-> op, ok |-> FALSE]]
        ELSE /\ reply' = reply
             /\ inCall' = [inCall EXCEPT ![g] =
                             [pc |-> "found", id |-> reminderID,
                              user |-> userID, op |-> op,
                              found |-> reminders_[CHOOSE k \in hits :
                                                     \A j \in hits : k <= j]]]
  /\ UNCHANGED <<now, storeVars, tickVars, histVars, observing, procVars, lock, adj, batch,
                 ret, timezone, recVars>>

\* processAdjustRecurringOperation in goroutine g from its
\* UpdateRecurringReminder call on: the fields merged from the definition
\* found are written, and the handler replies
AdjustRecurringUpdate(g) ==
  /\ inCall[g].pc = "found"
  /\ DbAvailable
  /\ LET c == inCall[g]
         m == MergedFields(c.found, c.op)
         updated == RecOwnerWhere(recurring, c.id, c.user)
     IN /\ recurring' = SetRecurringFields(recurring, c.id, c.user, m.label,
                                           m.recurring_type, m.time,
                                           m.day_of_week, m.day_of_month)
        /\ reply' = IF updated THEN AnswerReply ELSE UpdateFailedReply
        /\ ret' = Returned("UpdateRecurringReminder", c.id, c.user, updated)
        /\ inCall' = [inCall EXCEPT ![g] =
                        [pc |-> "done", id |-> c.id, user |-> c.user,
                         op |-> c.op, ok |-> updated]]
  /\ UNCHANGED <<now, storeVars, tickVars, histVars, observing, procVars, lock, adj, batch,
                 timezone, recSeq, recTickVars, recHistVars>>

\* the goroutine of a handled update ends; the next update gets a new one
HandlerReturns(g) ==
  /\ inCall[g].pc = "done"
  /\ inCall' = [inCall EXCEPT ![g] = OutOfCall]
  /\ UNCHANGED <<now, storeVars, tickVars, histVars, observing, procVars, lock, botVars,
                 ret, timezone, recVars>>

\* the adjusts of one field of definition 1
LabelOp == Operation("rec_1", "", "b", "", "", "", "")
TimeOp == Operation("rec_1", "", "", "", "00:01", "", "")

\* user 1 owns a definition and sends adjusts of it that are handled at once
NextRace ==
  \/ RecCreateCall({1}, {"a"}, {<<"daily", -1, -1>>}, {0}, {FALSE},
                   MaxRecurring)
  \/ \E i \in RecIds : DeleteRecurringReminder(i, 1)
  \/ \E g \in Handlers, op \in {LabelOp, TimeOp} :
       AdjustRecurringLookup(g, 1, op, 1)
  \/ \E g \in Handlers : AdjustRecurringUpdate(g)
  \/ \E g \in Handlers : HandlerReturns(g)

SpecRace == Init /\ [][NextRace]_vars

\* ================================================= concurrent owner calls
\* the calls of the handlers of one user on the one-shot table, and the mark
\* of the checker
LinearCallsOf(g) ==
  IF g = "checkReminders"
  THEN {Call("MarkMultipleAsNotified", i, 0) : i \in Ids}
  ELSE {Call("AddReminder", 0, 1)}
         \cup {Call(m, i, 1) :
                 m \in {"UpdateReminderTime", "UpdateReminderLabel",
                        "UpdateReminder", "DeleteReminder"},
                 i \in Ids}

\* the rows of reminders after the statement of a call, updates included
OwnerRemindersAfter(call) ==
  CASE call.method = "UpdateReminderTime" ->
         SetReminderTime(reminders, call.id, call.user, 1)
    [] call.method = "UpdateReminderLabel" ->
         SetReminderLabel(reminders, call.id, call.user, "b")
    [] call.method = "UpdateReminder" ->
         SetReminderTimeAndLabel(reminders, call.id, call.user, 1, "b")
    [] OTHER -> RemindersAfter(call)

\* rows > 0 of result.RowsAffected(); an INSERT returns its id and no error
RowsAffected(call) ==
  CASE call.method = "AddReminder" -> seq < MaxReminders
    [] call.method = "MarkMultipleAsNotified" -> TRUE
    [] OTHER -> OwnerWhere(reminders, call.id, call.user)

\* the statement of the method, run between Lock and the deferred Unlock;
\* the value the method will return is a local of the goroutine
OwnerStatement(g) ==
  /\ inCall[g].pc = "in"
  /\ DbAvailable
  /\ reminders' = OwnerRemindersAfter(inCall[g].call)
  /\ seq' = IF inCall[g].call.method = "AddReminder" /\ seq < MaxReminders
            THEN seq + 1 ELSE seq
  /\ inCall' = [inCall EXCEPT ![g] =
                  [pc |-> "unlock", call |-> inCall[g].call,
                   ok |-> RowsAffected(inCall[g].call)]]
  /\ UNCHANGED <<now, txOpen, txMarked, tickVars, histVars, observing, procVars, lock,
                 botVars, ret, timezone, recVars>>

\* defer r.lock.Unlock(): the method returns its value to the goroutine
OwnerUnlock(g) ==
  /\ inCall[g].pc = "unlock"
  /\ lock' = FALSE
  /\ inCall' = [inCall EXCEPT ![g].pc = "done"]
  /\ UNCHANGED <<now, storeVars, tickVars, histVars, observing, procVars, botVars, ret,
                 timezone, recVars>>

\* two handlers of user 1 and the checker call the one-shot table at once
LinearGoroutines == Handlers \cup {"checkReminders"}
NextLinear ==
  \/ \E g \in LinearGoroutines : \E call \in LinearCallsOf(g) :
       CallMethod(g, call)
  \/ \E g \in LinearGoroutines : Lock(g)
  \/ \E g \in LinearGoroutines : OwnerStatement(g)
  \/ \E g \in LinearGoroutines : OwnerUnlock(g)
  \/ \E g \in LinearGoroutines : HandlerReturns(g)

SpecLinear == Init /\ [][NextLinear]_vars

\* ================================================= the ticks and the lock
\* the two periodic tasks
TickGoroutines == {"checkReminders", "startRecurringChecker"}

\* a due query that returns to the tick with the mutex held
HeldAfterDueQuery(method) ==
  method \in {"GetDueReminders", "GetDueRecurringReminders"}

\* defer r.lock.Unlock() runs as the method returns: no method leaves the
\* mutex held
HeldAfterReturn(method) == FALSE

\* the ids of the rows of a result, in its order
IdsOf(rows) == [k \in 1..Len(rows) |-> rows[k].id]

\* processDueReminders and processRecurringReminders: now := time.Now(), then
\* the call of the due query.  Every recurring tick of the model runs in the
\* minute the model starts in.
TickCallsDueQuery(g, t) ==
  /\ inCall[g].pc = "out"
  /\ t >= now
  /\ now' = IF g = "checkReminders" THEN t ELSE now
  /\ inCall' = [inCall EXCEPT ![g] =
                  [pc |-> "lock",
                   call |-> Call(IF g = "checkReminders"
                                 THEN "GetDueReminders"
                                 ELSE "GetDueRecurringReminders", 0, 0),
                   rows |-> <<>>, k |-> 1, ids |-> <<>>]]
  /\ UNCHANGED <<storeVars, tickVars, histVars, observing, procVars, lock, botVars, ret,
                 timezone, recVars>>

\* the statement of a method a tick calls, run between Lock and Unlock
TickStatement(g) ==
  /\ inCall[g].pc = "in"
  /\ DbAvailable
  /\ LET c == inCall[g]
     IN /\ reminders' = IF c.call.method = "MarkMultipleAsNotified"
                        THEN SetNotified(reminders, SeqToSet(c.ids))
                        ELSE reminders
        /\ recurring' =
             IF c.call.method = "UpdateRecurringReminderLastTriggered"
             THEN SetLastTriggered(recurring, c.call.id, rnow)
             ELSE recurring
        /\ inCall' = [inCall EXCEPT
                        ![g].pc = "unlock",
                        ![g].rows =
                          CASE c.call.method = "GetDueReminders" ->
                                 IdsOf(GetDueReminders(reminders, now))
                            [] c.call.method = "GetDueRecurringReminders" ->
                                 IdsOf(GetDueRecurringReminders(recurring,
                                                                rnow))
                            [] OTHER -> c.rows]
  /\ UNCHANGED <<now, seq, txOpen, txMarked, tickVars, histVars, observing, procVars, lock,
                 botVars, ret, timezone, recSeq, recTickVars, recHistVars>>

\* the method returns to the tick: with no row left to send the tick ends,
\* else it goes on with the range loop
TickUnlock(g) ==
  /\ inCall[g].pc = "unlock"
  /\ lock' = HeldAfterReturn(inCall[g].call.method)
  /\ inCall' = [inCall EXCEPT ![g] =
                  IF \/ inCall[g].call.method = "MarkMultipleAsNotified"
                     \/ inCall[g].k > Len(inCall[g].rows)
                  THEN OutOfCall
                  ELSE [inCall[g] EXCEPT !.pc = "send"]]
  /\ UNCHANGED <<now, storeVars, tickVars, histVars, observing, procVars, botVars, ret,
                 timezone, recVars>>

\* b.bot.Send for row k of the range loop.  checkReminders collects the id of
\* a sent row and calls MarkMultipleAsNotified after the loop, which returns
\* before Lock for no ids; startRecurringChecker calls
\* UpdateRecurringReminderLastTriggered after every send that succeeded.
NotifierSend(g, ok) ==
  /\ inCall[g].pc = "send"
  /\ LET c == inCall[g]
         last == c.k = Len(c.rows)
         ids == IF ok THEN Append(c.ids, c.rows[c.k]) ELSE c.ids
         next == [c EXCEPT !.k = @ + 1, !.ids = ids]
     IN inCall' = [inCall EXCEPT ![g] =
          IF g = "checkReminders"
          THEN IF ~last THEN next
               ELSE IF ids = <<>> THEN OutOfCall
               ELSE [next EXCEPT !.pc = "lock",
                                 !.call = Call("MarkMultipleAsNotified", 0, 0)]
          ELSE IF ok
               THEN [next EXCEPT
                       !.pc = "lock",
                       !.call = Call("UpdateRecurringReminderLastTriggered",
                                     c.rows[c.k], 0)]
               ELSE IF last THEN OutOfCall ELSE next]
  /\ UNCHANGED <<now, storeVars, tickVars, histVars, observing, procVars, lock, botVars,
                 ret, timezone, recVars>>

\* the calls of the handlers next to the ticks: they create and delete
SendCallsOf(g) ==
  {c \in CallsOf(g) :
     c.method \in {"AddReminder", "AddRecurringReminder", "DeleteReminder"}}

\* both periodic tasks send and mark while two handlers call the repository
NextSend ==
  \/ \E g \in TickGoroutines, t \in Times : TickCallsDueQuery(g, t)
  \/ \E g \in TickGoroutines : TickStatement(g)
  \/ \E g \in TickGoroutines : TickUnlock(g)
  \/ \E g \in TickGoroutines, ok \in BOOLEAN : NotifierSend(g, ok)
  \/ \E g \in Handlers : \E call \in SendCallsOf(g) : CallMethod(g, call)
  \/ \E g \in Goroutines : Lock(g)
  \/ \E g \in Handlers : Statement(g)
  \/ \E g \in Handlers : Unlock(g)

SpecSend == Init /\ [][NextSend]_vars

C6_MarkedOnlyWhenStillDue ==
  \A i \in DOMAIN reminders :
     reminders[i].notified => reminders[i].reminder_time <= now

\* C9: a mark batch is all-or-nothing in the committed table: a failed
\* batch changes no row, a successful one leaves every listed row notified.
C9_MarkAllOrNothing ==
  [][(pc = "mark" /\ pc' = "idle") =>
       IF markFails' = markFails
       THEN \A i \in SeqToSet(reminderIDs) \cap DOMAIN reminders :
               reminders'[i].notified
       ELSE reminders' = reminders]_vars

C9_Witness ==
  /\ txOpen
  /\ txMarked # {}
  /\ \A i \in txMarked : ~reminders[i].notified

\* C10 (as stated): after a mark batch failed part-way, the next tick
\* completes its due query.
C10_NextTickCompletesQuery ==
  (pc = "query" /\ \E i \in Ids : markFails[i] > 0) => ENABLED GetDue

\* ------------------------------------------------------ recurring claims
RECURSIVE SumOver(_, _)
SumOver(f, S) ==
  IF S = {} THEN 0
  ELSE LET d == CHOOSE x \in S : TRUE IN f[d] + SumOver(f, S \ {d})

FiredTotal(i) == SumOver(fired[i], Days)

IsReminderCall(i, u) ==
  /\ ret'.id = i
  /\ ret'.user = u
  /\ \/ \E t \in Times : UpdateReminderTime(i, u, t)
     \/ \E l \in Labels : UpdateReminderLabel(i, u, l)
     \/ \E t \in Times, l \in Labels : UpdateReminder(i, u, t, l)
     \/ DeleteReminder(i, u)

\* the step is an update or delete call of user u on definition i
IsRecurringCall(i, u) ==
  /\ ret'.id = i
  /\ ret'.user = u
  /\ \/ \E l \in Labels, p \in RecPatterns, m \in TimesOfDay :
          UpdateRecurringReminder(i, u, l, p[1], m, p[2], p[3])
     \/ DeleteRecurringReminder(i, u)

\* C7: an update or delete by a user who does not own the row returns false
\* and changes nothing, for one-shot reminders and recurring definitions.
C7_OwnershipIsolation ==
  [][/\ \A i \in DOMAIN reminders, u \in Users :
          (reminders[i].user_id # u /\ IsReminderCall(i, u))
            => (~ret'.ok /\ reminders' = reminders)
     /\ \A i \in DOMAIN recurring, u \in Users :
          (recurring[i].user_id # u /\ IsRecurringCall(i, u))
            => (~ret'.ok /\ recurring' = recurring)]_vars

C7_Witness ==
  /\ ret.op = "DeleteRecurringReminder"
  /\ ret.id \in DOMAIN recurring
  /\ recurring[ret.id].user_id # ret.user
  /\ recurring[ret.id].active
  /\ ~ret.ok
  /\ \E i \in DOMAIN reminders : reminders[i].user_id # ret.user

\* C8: a notified reminder is never changed, removed, selected or sent
\* again, and every update or delete on it returns false.
C8_NotifiedIsFinal ==
  [][\A i \in DOMAIN reminders :
       reminders[i].notified =>
         /\ i \in DOMAIN reminders'
         /\ reminders'[i] = reminders[i]
         /\ sent'[i] = sent[i]
         /\ dueTicks'[i] = dueTicks[i]
         /\ \A u \in Users : IsReminderCall(i, u) => ~ret'.ok]_vars

C8_Witness ==
  /\ ret.op = "DeleteReminder"
  /\ ret.id \in DOMAIN reminders
  /\ reminders[ret.id].notified
  /\ reminders[ret.id].user_id = ret.user
  /\ ~ret.ok

ZoneOffset(z) == IF z = "Asia/Vladivostok" THEN SlotsPerMinute ELSE 0

\* the due condition evaluated on the wall clock of the owner's zone
DueInOwnersZone(row, t) ==
  LET off == ZoneOffset(ZoneOf(timezone, row.user_id))
  IN /\ row.active
     /\ ~row.is_todo
     /\ row.time = Format1504(t + off)
     /\ PatternMatches(row, t + off)
     /\ \/ row.last_triggered = NoTime
        \/ row.last_triggered + off < StartOfToday(t + off)

\* C12 (as stated): the due query of a recurring tick selects a definition
\* exactly when it is due on the wall clock of its owner's timezone.
C12_DueInOwnersTimezone ==
  rpc = "query" =>
    \A i \in DOMAIN recurring :
       RecDueWhere(recurring[i], rnow) = DueInOwnersZone(recurring[i], rnow)

\* ---------------------------------------------------------- pattern match
\* the match the claim gives for a definition at instant t
PatternExpected(row, t) ==
  CASE row.recurring_type = "daily" -> TRUE
    [] row.recurring_type = "weekly" -> row.day_of_week = Weekday(t)
    [] row.recurring_type = "monthly" -> row.day_of_month = DayOfMonth(t)
    [] OTHER -> FALSE

\* C13: among the active non-todo definitions whose time is the current
\* minute and that did not fire today, the due query returns a daily one
\* always, a weekly one exactly on its weekday, a monthly one exactly on its
\* day of the month, and never a monthly one whose day the month lacks.
C13_PatternMatch ==
  [][RecGetDue =>
       \A i \in DOMAIN recurring :
          /\ (/\ recurring[i].active
              /\ ~recurring[i].is_todo
              /\ recurring[i].time = Format1504(rnow)
              /\ \/ recurring[i].last_triggered = NoTime
                 \/ recurring[i].last_triggered < StartOfToday(rnow))
               => ((i \in RowIds(rdue')) = PatternExpected(recurring[i], rnow))
          /\ (/\ recurring[i].recurring_type = "monthly"
              /\ recurring[i].day_of_month > EpochDate.monthLen)
               => i \notin RowIds(rdue')]_vars

C13_Witness ==
  /\ rpc = "send"
  /\ ridx = 1
  /\ Weekday(rnow) = 2
  /\ rdue[1].recurring_type = "weekly"
  /\ rdue[1].day_of_week = 2

\* ------------------------------------------------------------------ ListDue
\* C14: the due query returns exactly the reminders of all users that are
\* not notified, not todos and whose time is at or before the instant
\* asked for, in ascending order of their time.
C14_ListDueExact ==
  [][GetDue =>
       /\ RowIds(due') =
            {i \in DOMAIN reminders :
               /\ ~reminders[i].notified
               /\ ~reminders[i].is_todo
               /\ reminders[i].reminder_time <= now}
       /\ Len(due') = Cardinality(RowIds(due'))
       /\ \A k \in 1..Len(due') : due'[k] = reminders[due'[k].id]
       /\ \A k \in 1..(Len(due') - 1) :
             due'[k].reminder_time <= due'[k + 1].reminder_time]_vars

C14_Witness ==
  /\ pc = "send"
  /\ idx = 1
  /\ Len(due) = 2
  /\ due[1].id > due[2].id
  /\ due[1].reminder_time < due[2].reminder_time
  /\ due[2].reminder_time = now
  /\ due[1].user_id # due[2].user_id

\* -------------------------------------------------------------------- todos
\* C15: neither checker selects or sends a todo: no row of a due result is
\* a todo, and a todo of either table has no send, failed send or selection
\* counted for it.
C15_NoTodoSent ==
  /\ \A k \in 1..Len(due) : ~due[k].is_todo
  /\ \A k \in 1..Len(rdue) : ~rdue[k].is_todo
  /\ \A i \in DOMAIN reminders :
        reminders[i].is_todo =>
          (sent[i] = 0 /\ sendFails[i] = 0 /\ dueTicks[i] = 0)
  /\ \A i \in DOMAIN recurring :
        recurring[i].is_todo => (FiredTotal(i) = 0 /\ rSendFails[i] = 0)

C15_Witness ==
  /\ \E i, j \in DOMAIN reminders :
        /\ i < j
        /\ reminders[i].is_todo
        /\ ~reminders[i].notified
        /\ reminders[i].reminder_time <= reminders[j].reminder_time
        /\ reminders[j].notified
  /\ \E i \in DOMAIN recurring :
        /\ recurring[i].is_todo
        /\ recurring[i].active
        /\ recurring[i].time = Format1504(rnow)
        /\ rnow > 0
        /\ rpc = "idle"

\* ------------------------------------------------------------ ListByPeriod
\* C16: for start < end the period listing returns exactly the user's
\* unnotified reminders with start <= time < end, as they are stored, in
\* ascending order of time: one at start is included, one at end is not.
C16_HalfOpenInterval ==
  [][\A u \in Users, start \in Times, end \in Times :
       (start < end /\ ListByPeriod(u, start, end)) =>
          /\ RowIds(ret'.rows) =
               {i \in DOMAIN reminders :
                  /\ reminders[i].user_id = u
                  /\ ~reminders[i].notified
                  /\ start <= reminders[i].reminder_time
                  /\ reminders[i].reminder_time < end}
          /\ Len(ret'.rows) = Cardinality(RowIds(ret'.rows))
          /\ \A k \in 1..Len(ret'.rows) :
                ret'.rows[k] = reminders[ret'.rows[k].id]
          /\ \A k \in 1..(Len(ret'.rows) - 1) :
                ret'.rows[k].reminder_time <= ret'.rows[k + 1].reminder_time]_vars

C16_Witness ==
  /\ ret.op = "GetUserRemindersByPeriod"
  /\ ret.start < ret.end
  /\ \E k \in 1..Len(ret.rows) : ret.rows[k].reminder_time = ret.start
  /\ \E i \in DOMAIN reminders :
        /\ reminders[i].user_id = ret.user
        /\ ~reminders[i].notified
        /\ reminders[i].reminder_time = ret.end
        /\ i \notin RowIds(ret.rows)

\* ---------------------------------------------------------- recurring delete
\* C17 (as stated): a deleted (inactive) definition stays inactive and no
\* checker step sends it or fails to send it.
C17_DeletedNeverFires ==
  [][\A i \in DOMAIN recurring :
       ~recurring[i].active =>
         /\ ~recurring'[i].active
         /\ fired'[i] = fired[i]
         /\ rSendFails'[i] = rSendFails[i]]_vars

\* C17, what holds of it: a deleted definition stays inactive with its
\* fields as they were, no listing of its owner and no due query returns
\* it, and the only send of it is by a tick whose due query returned it
\* before the delete.
C17_DeleteIsFinal ==
  [][\A i \in DOMAIN recurring :
       ~recurring[i].active =>
         /\ i \in DOMAIN recurring'
         /\ [recurring'[i] EXCEPT !.last_triggered = NoTime] =
              [recurring[i] EXCEPT !.last_triggered = NoTime]
         /\ i \notin
              RowIds(GetUserRecurringReminders(recurring, recurring[i].user_id))
         /\ \A t \in RecTimes :
              i \notin RowIds(GetDueRecurringReminders(recurring, t))
         /\ RecGetDue => i \notin RowIds(rdue')
         /\ (fired'[i] # fired[i] \/ rSendFails'[i] # rSendFails[i])
              => (rpc = "send" /\ rdue[ridx].id = i /\ rdue[ridx].active)]_vars

C17_Witness ==
  /\ rpc = "send"
  /\ rdue[ridx].id \in DOMAIN recurring
  /\ ~recurring[rdue[ridx].id].active
  /\ rdue[ridx].active

\* ---------------------------------------------------------- recurring update
\* C18: an update by the owner of an active definition returns true and
\* sets label, type, time, day of week and day of month, leaving every
\* other field and row as it was; on a missing, inactive or foreign id it
\* returns false and changes nothing; a definition that fired today is not
\* selected again that day whatever it was edited to, and fires at most
\* once a day.
C18_UpdateFrame ==
  [][/\ \A i \in RecIds, u \in Users, l \in Labels, p \in EditPatterns,
           m \in TimesOfDay :
          (/\ ret'.op = "UpdateRecurringReminder"
           /\ ret'.id = i
           /\ ret'.user = u
           /\ UpdateRecurringReminder(i, u, l, p[1], m, p[2], p[3])) =>
            IF /\ i \in DOMAIN recurring
               /\ recurring[i].active
               /\ recurring[i].user_id = u
            THEN /\ ret'.ok
                 /\ DOMAIN recurring' = DOMAIN recurring
                 /\ \A j \in DOMAIN recurring \ {i} :
                       recurring'[j] = recurring[j]
                 /\ recurring'[i] =
                      [id |-> i,
                       chat_id |-> recurring[i].chat_id,
                       user_id |-> recurring[i].user_id,
                       label |-> l, recurring_type |-> p[1], time |-> m,
                       day_of_week |-> p[2], day_of_month |-> p[3],
                       last_triggered |-> recurring[i].last_triggered,
                       active |-> recurring[i].active,
                       is_todo |-> recurring[i].is_todo]
            ELSE ~ret'.ok /\ recurring' = recurring
     /\ \A i \in DOMAIN recurring :
          /\ recurring[i].last_triggered # NoTime =>
               \A t \in RecTimes :
                  DayIndex(t) = DayIndex(recurring[i].last_triggered)
                    => i \notin RowIds(GetDueRecurringReminders(recurring, t))
          /\ \A d \in Days : fired[i][d] <= 1]_vars

C18_Witness ==
  /\ ret.op = "UpdateRecurringReminder"
  /\ ret.ok
  /\ ret.id \in DOMAIN recurring
  /\ rpc = "idle"
  /\ recurring[ret.id].active
  /\ recurring[ret.id].last_triggered # NoTime
  /\ DayIndex(recurring[ret.id].last_triggered) = DayIndex(rnow)
  /\ recurring[ret.id].last_triggered < rnow
  /\ recurring[ret.id].time = Format1504(rnow)
  /\ fired[ret.id][DayIndex(rnow)] = 1

\* C19: a recurring adjust is a merge patch. When the handler's
\* UpdateRecurringReminder changes the definition, every field the operation
\* left empty keeps the value the handler read from the store, and a label
\* and a time that are given become the stored ones.
C19_MergePatch ==
  [][(adj.pc = "update" /\ adj'.pc = "done"
        /\ RecOwnerWhere(recurring, adj.id, adj.user)) =>
       LET op == adj.op
           prior == adj.found
           new == recurring'[adj.id]
       IN /\ op.Label = "" => new.label = prior.label
          /\ op.Time = "" => new.time = prior.time
          /\ op.RecurringType = "" =>
               new.recurring_type = prior.recurring_type
          /\ op.DayOfWeek = "" => new.day_of_week = prior.day_of_week
          /\ op.DayOfMonth = "" => new.day_of_month = prior.day_of_month
          /\ op.Label # "" => new.label = op.Label
          /\ op.Time # "" => new.time = TimeOfText(op.Time)
          /\ new.last_triggered = recurring[adj.id].last_triggered
          /\ new.active /\ new.user_id = adj.user]_vars

\* the scenario of C19: an adjust of a weekly definition with an empty label
\* and a time has changed the time and kept label, type and day of week
C19_Witness ==
  /\ adj.pc = "done"
  /\ reply = AnswerReply
  /\ adj.op.Label = "" /\ adj.op.Time = "00:01"
  /\ adj.op.RecurringType = "" /\ adj.op.DayOfWeek = ""
  /\ adj.found.recurring_type = "weekly"
  /\ adj.found.time = 0
  /\ adj.found.day_of_week = 1
  /\ adj.id \in DOMAIN recurring
  /\ recurring[adj.id].time = 1
  /\ recurring[adj.id].label = adj.found.label
  /\ recurring[adj.id].recurring_type = "weekly"
  /\ recurring[adj.id].day_of_week = 1

\* an operation with none of the fields an adjust can change
NoChange(op) ==
  /\ op.Datetime = "" /\ op.Label = "" /\ op.RecurringType = ""
  /\ op.Time = "" /\ op.DayOfWeek = "" /\ op.DayOfMonth = ""

\* C20 (as stated): an adjust with none of the changeable fields, of a
\* reminder or a definition of the user, is answered "nothing to change",
\* and the handler makes no update call on the store.
C20_EmptyAdjustRejected ==
  [][/\ \A u \in Users, op \in AdjustOps :
          (/\ NoChange(op)
           /\ ~ReminderIdOf(op.ReminderID).err
           /\ IF HasRecPrefix(op.ReminderID)
              THEN RecOwnerWhere(recurring, ReminderIdOf(op.ReminderID).n, u)
              ELSE OwnerWhere(reminders, ReminderIdOf(op.ReminderID).n, u)
           /\ processAdjustOperation(op, u))
            => /\ reply' = NothingToChangeReply
               /\ adj'.pc # "update"
               /\ UNCHANGED <<reminders, recurring>>
     /\ (adj.pc = "update" /\ NoChange(adj.op)) => adj'.pc # "done"]_vars

\* C20, what holds of it: an adjust of a plain integer id with neither
\* datetime nor label is answered "nothing to change" and leaves both tables
\* and the handler's position as they were.
C20_EmptyOneShotRejected ==
  [][\A u \in Users, op \in AdjustOps :
       (/\ NoChange(op)
        /\ ~ReminderIdOf(op.ReminderID).err
        /\ ~HasRecPrefix(op.ReminderID)
        /\ processAdjustOperation(op, u))
         => /\ reply' = NothingToChangeReply
            /\ UNCHANGED <<reminders, recurring, adj>>]_vars

\* an empty adjust of a reminder was rejected while the reminder exists
C20_Witness ==
  /\ reply = NothingToChangeReply
  /\ reminders # <<>>


\* C21: an adjust or delete of a rec_ id, and the inline button
\* delete_rec_<n>, leave the one-shot table as it is; an adjust or delete of
\* a plain integer id, and the inline button delete_<n>, leave the recurring
\* table and the recurring adjust handler as they are, also when both tables
\* hold a row with that id.
C21_PrefixSelectsStore ==
  [][/\ \A u \in Users, op \in PrefixOps \cup DeleteOps :
          (processAdjustOperation(op, u) \/ processDeleteOperation(op, u))
            => IF op.ReminderID \in {"rec_1", "rec_x"}
               THEN UNCHANGED <<reminders, seq>>
               ELSE UNCHANGED <<recurring, recSeq, adj>>
     /\ processAdjustRecurringUpdate => UNCHANGED <<reminders, seq>>
     /\ \A u \in Users, c \in CallbackData, requestOk \in BOOLEAN :
          handleCallbackQuery(c, u, requestOk)
            => IF c \in {"delete_rec_1", "delete_rec_x"}
               THEN UNCHANGED <<reminders, seq>>
               ELSE UNCHANGED <<recurring, recSeq, adj>>]_vars

\* both tables held a row with id 1 of one user; a delete of rec_1 has made
\* the definition inactive and the reminder with id 1 is still there
C21_Witness ==
  /\ 1 \in DOMAIN reminders
  /\ 1 \in DOMAIN recurring
  /\ reminders[1].user_id = recurring[1].user_id
  /\ ~recurring[1].active


\* an operation that fails a validation of its handler
FailsValidation(op) ==
  \/ op.Action = "create" /\ op.Datetime \notin {"2024-04-29 00:00:00",
                                                 "2024-04-29 00:00:30"}
  \/ op.Action = "create_recurring"
       /\ \/ op.Time = "" /\ op.Datetime = ""
          \/ op.RecurringType \notin {"daily", "weekly", "monthly"}
          \/ op.RecurringType = "weekly"
               /\ op.DayOfWeek \notin {"0", "1", "2", "6", "mon", "sun"}
          \/ op.RecurringType = "monthly"
               /\ op.DayOfMonth \notin {"1", "15", "31"}
  \/ op.Action \in {"adjust", "delete"}
       /\ op.ReminderID \notin {"1", "rec_1"}

C23_FailedParseAppliesNothing ==
  [][\A response \in Responses :
       (/\ \/ response.kind # "operations"
           \/ \E k \in 1..Len(response.operations) :
                response.operations[k] \in IncompleteOps
        /\ handleTextMessage(response, 1))
         => /\ UNCHANGED <<reminders, seq, recurring, recSeq, adj, batch>>
            /\ reply' = ParseFailedReply]_vars

\* a message was rejected by the parser after an earlier message had created
\* a reminder and a definition; both are as the earlier message left them
C23_Witness ==
  /\ reply = ParseFailedReply
  /\ ~BatchRunning
  /\ seq = 1 /\ recSeq = 1
  /\ 1 \in DOMAIN reminders
  /\ recurring[1].active


\* C24 (as stated): every active definition has the day its type requires: a
\* weekly one a day_of_week in 0..6, a monthly one a day_of_month in 1..31.
C24_DayFieldOfType ==
  \A i \in DOMAIN recurring :
    recurring[i].active =>
      /\ recurring[i].recurring_type = "weekly"
           => recurring[i].day_of_week \in 0..6
      /\ recurring[i].recurring_type = "monthly"
           => recurring[i].day_of_month \in 1..31

\* C24, what holds of it: the definition a create_recurring stores has the
\* day of its type in range and no other day.
C24_CreatedWithDayOfType ==
  [][recSeq' = recSeq + 1 =>
       LET r == recurring'[recSeq']
       IN /\ r.active
          /\ r.recurring_type \in {"daily", "weekly", "monthly"}
          /\ r.recurring_type = "weekly" <=> r.day_of_week \in 0..6
          /\ r.recurring_type = "monthly" <=> r.day_of_month \in 1..31
          /\ r.recurring_type # "weekly" => r.day_of_week = NoDay
          /\ r.recurring_type # "monthly" => r.day_of_month = NoDay]_vars

\* a create_recurring of the batch has stored a weekly definition
C24_Witness ==
  /\ 1 \in DOMAIN recurring
  /\ recurring[1].recurring_type = "weekly"
  /\ recurring[1].day_of_week = 1
  /\ reply = CreatedRecurringReply


\* the day a text names: its number, or the day of its name when the spaces
\* around it and its case are left aside; -1 when it names none
NamedDay(text) ==
  CASE text \in {"0", "sunday", "sun", "voskresenye", "vs", "SUNDAY"} -> 0
    [] text \in {"1", "monday", "mon", "ponedelnik", "pn", " Monday ", "MON",
                 " mon", "Pn", "pn "} -> 1
    [] text \in {"2", "tuesday", "tue", "vtornik", "vt"} -> 2
    [] text \in {"wednesday", "wed", "sreda", "sr", "Sreda"} -> 3
    [] text \in {"thursday", "thu", "chetverg", "cht"} -> 4
    [] text \in {"friday", "fri", "pyatnitsa", "pt"} -> 5
    [] text \in {"6", "saturday", "sat", "subbota", "sb"} -> 6
    [] OTHER -> -1

\* C25: a weekly create stores the day its day-of-week text names, the same
\* for the English and Russian name, their short forms and the number; a
\* text that names no day is answered as an invalid day of week and stores
\* nothing.
C25_DayOfWeekResolution ==
  [][\A d \in DayTexts :
       processCreateRecurringOperation(
           Operation("", "", d, "weekly", "00:01", d, ""), 1)
         => IF NamedDay(d) >= 0
            THEN /\ recSeq' = recSeq + 1
                 /\ recurring'[recSeq'].recurring_type = "weekly"
                 /\ recurring'[recSeq'].day_of_week = NamedDay(d)
                 /\ recurring'[recSeq'].active
            ELSE /\ UNCHANGED <<recurring, recSeq>>
                 /\ reply' = InvalidDayOfWeekReply]_vars

\* the texts "ponedelnik" and "1" were both stored as day 1, the last create
\* named no day and stored nothing
C25_Witness ==
  /\ recSeq = 2
  /\ recurring[1].label = "ponedelnik" /\ recurring[1].day_of_week = 1
  /\ recurring[2].label = "1" /\ recurring[2].day_of_week = 1
  /\ reply = InvalidDayOfWeekReply


EventsOn(events, id, d) ==
  {k \in 1..Len(events) : events[k].ID = id /\ events[k].Date = d}

\* C27: a projection of [start, end) for a user returns, for every date and
\* every definition, one occurrence when the date is in the range, the
\* definition is an active one of the user and its pattern matches the date,
\* and none otherwise, whatever last_triggered and the time of the
\* definition are; the occurrence carries the label and time of the
\* definition.
C27_OccurrencePerMatchingDay ==
  [][\A u \in Users, range \in ProjectedRanges :
       ProjectCall(u, range[1], range[2])
         => \A d \in Dates, i \in 1..MaxProjected :
              LET listed == /\ range[1] <= d /\ d < range[2]
                            /\ i \in DOMAIN recurring
                            /\ recurring[i].user_id = u
                            /\ recurring[i].active
                            /\ \/ recurring[i].recurring_type = "daily"
                               \/ /\ recurring[i].recurring_type = "weekly"
                                  /\ recurring[i].day_of_week
                                       = Weekday(Midnight(d))
                               \/ /\ recurring[i].recurring_type = "monthly"
                                  /\ recurring[i].day_of_month
                                       = DayOfMonth(Midnight(d))
                  on == EventsOn(ret'.rows, i, d)
              IN /\ Cardinality(on) = IF listed THEN 1 ELSE 0
                 /\ \A k \in on : /\ ret'.rows[k].Label = recurring[i].label
                                  /\ ret'.rows[k].Time = recurring[i].time]_vars

\* a projection of 30 April and 1 May listed a definition on the day it was
\* already triggered, and listed another definition of the user on one of
\* the two days only
C27_Witness ==
  /\ ret.op = "getApplicableRecurringReminders"
  /\ ret.start = 1 /\ ret.end = 3
  /\ \E i, j \in DOMAIN recurring :
       /\ i # j
       /\ recurring[i].user_id = ret.user /\ recurring[j].user_id = ret.user
       /\ recurring[i].active /\ recurring[j].active
       /\ recurring[i].last_triggered = Midnight(1)
       /\ EventsOn(ret.rows, i, 1) # {}
       /\ recurring[j].recurring_type = "monthly"
       /\ EventsOn(ret.rows, j, 1) = {}
       /\ EventsOn(ret.rows, j, 2) # {}



\* the first and the last date of a show_list that names its start
FirstDate(op) == ParseDate(op.StartDate).date
LastDate(op) ==
  IF op.EndDate = "" THEN FirstDate(op) ELSE ParseDate(op.EndDate).date

\* the reminders a show_list of the user is to list: all that are not
\* notified when it names no date, else those from the start of the first
\* date to the end of the last
ToList(op, userID) ==
  {i \in DOMAIN reminders :
     /\ reminders[i].user_id = userID
     /\ ~reminders[i].notified
     /\ \/ op.StartDate = ""
        \/ /\ Midnight(FirstDate(op)) <= reminders[i].reminder_time
           /\ reminders[i].reminder_time < Midnight(LastDate(op) + 1)}

\* the occurrences it is to merge: none when it names no date, else one for
\* each date of the range and each active definition of the user that
\* matches the date
ToMerge(op, userID) ==
  IF op.StartDate = "" THEN {}
  ELSE {p \in (DOMAIN recurring) \X Dates :
          /\ FirstDate(op) <= p[2] /\ p[2] <= LastDate(op)
          /\ recurring[p[1]].user_id = userID
          /\ recurring[p[1]].active
          /\ \/ recurring[p[1]].recurring_type = "daily"
             \/ /\ recurring[p[1]].recurring_type = "weekly"
                /\ recurring[p[1]].day_of_week = Weekday(Midnight(p[2]))
             \/ /\ recurring[p[1]].recurring_type = "monthly"
                /\ recurring[p[1]].day_of_month = DayOfMonth(Midnight(p[2]))}

\* C28: a show_list without dates lists all reminders of the user that are
\* not notified and no occurrence; with a start date only, the reminders of
\* [start, start + 1 day) and the occurrences of that date; with both dates,
\* the reminders of [start, end + 1 day) and the occurrences of each date of
\* the range.
C28_ListedRange ==
  [][\A op \in ShowOps :
       (/\ ShowListCall(op, 1)
        /\ op.StartDate = "" => op.EndDate = ""
        /\ op.StartDate # "" => ~ParseDate(op.StartDate).err
        /\ op.EndDate # "" => ~ParseDate(op.EndDate).err)
         => LET lines == reply'.lines
                single == op.StartDate # "" /\ op.EndDate = ""
            IN /\ Cardinality({k \in 1..Len(lines) : ~lines[k].regular})
                    = Cardinality(ToList(op, 1))
               /\ Cardinality({k \in 1..Len(lines) : lines[k].regular})
                    = Cardinality(ToMerge(op, 1))
               /\ \A i \in ToList(op, 1) : \E k \in 1..Len(lines) :
                    /\ ~lines[k].regular
                    /\ lines[k].label = reminders[i].label
                    /\ lines[k].box = reminders[i].is_todo
                    /\ lines[k].box
                         \/ lines[k].time = Format1504(reminders[i].reminder_time)
                    /\ single
                         \/ lines[k].date = Format02012006(reminders[i].reminder_time)
               /\ \A p \in ToMerge(op, 1) : \E k \in 1..Len(lines) :
                    /\ lines[k].regular
                    /\ lines[k].label = recurring[p[1]].label
                    /\ lines[k].time = recurring[p[1]].time
                    /\ single
                         \/ lines[k].date = Format02012006(Midnight(p[2]))]_vars

\* the list of 29 April to 1 May has a reminder of 1 May and the occurrences
\* of a daily definition on the three dates, and leaves out a reminder of
\* the other user
C28_Witness ==
  /\ batch.ops # <<>>
  /\ batch.ops[1].StartDate = "2024-04-29"
  /\ batch.ops[1].EndDate = "2024-05-01"
  /\ Cardinality({k \in 1..Len(reply.lines) : reply.lines[k].regular}) = 3
  /\ \E k \in 1..Len(reply.lines) :
       ~reply.lines[k].regular /\ reply.lines[k].date = <<1, 5, 2024>>
  /\ \E i \in DOMAIN reminders : reminders[i].user_id = 2
  /\ Len(reply.lines) = 4


\* the lines a show_list produces before it sorts them
ProducedLines(op, userID) ==
  LET rows == IF op.StartDate # ""
              THEN GetUserRemindersByPeriod(reminders, userID,
                                            Midnight(FirstDate(op)),
                                            Midnight(LastDate(op) + 1))
              ELSE GetUserReminders(reminders, userID)
      events == IF op.StartDate # ""
                THEN getApplicableRecurringReminders(recurring, userID,
                                                     FirstDate(op),
                                                     LastDate(op) + 1)
                ELSE <<>>
  IN IF op.StartDate # "" /\ op.EndDate = "" THEN DayLines(rows, events)
     ELSE DateLines(rows, events)

\* each line is as often in s as in t
SameLines(s, t) ==
  /\ Len(s) = Len(t)
  /\ \A k \in 1..Len(s) :
       Cardinality({j \in 1..Len(s) : s[j] = s[k]})
         = Cardinality({j \in 1..Len(t) : t[j] = s[k]})

\* in the lines of one day, todos come before timed lines and timed lines
\* are in the order of their times
DayInOrder(lines) ==
  \A k, m \in 1..Len(lines) :
     (k < m /\ lines[k].date = lines[m].date)
       => /\ lines[m].box => lines[k].box
          /\ (~lines[k].box /\ ~lines[m].box) => lines[k].time <= lines[m].time

\* the days of the lines are in the order of the calendar
DaysInOrder(lines) ==
  \A k, m \in 1..Len(lines) :
     (k < m /\ lines[k].date # NoDateText)
       => ~YearMonthDayLess(lines[m].date, lines[k].date)

\* C29: the lines of a list are the lines that were produced, each as often;
\* their days are in the order of the calendar, also from one month to the
\* next; in a day the todos come first and the timed lines follow in the
\* order of their times.
C29_ListInCalendarOrder ==
  [][\A op \in ShowOps :
       (/\ ShowListCall(op, 1)
        /\ op.StartDate # "" => ~ParseDate(op.StartDate).err
        /\ op.EndDate # "" => ~ParseDate(op.EndDate).err)
         => /\ SameLines(reply'.lines, ProducedLines(op, 1))
            /\ DaysInOrder(reply'.lines)
            /\ DayInOrder(reply'.lines)]_vars

\* the dates of the lines are of one month
OneMonth(lines) ==
  \A k, m \in 1..Len(lines) :
     lines[k].date # NoDateText => lines[k].date[2] = lines[m].date[2]

\* C29, what holds of it: the lines are those produced, the order in a day
\* is as claimed, and the days are in the order of the calendar when they
\* are days of one month.
C29_ListInOrderOfDayTexts ==
  [][\A op \in ShowOps :
       (/\ ShowListCall(op, 1)
        /\ op.StartDate # "" => ~ParseDate(op.StartDate).err
        /\ op.EndDate # "" => ~ParseDate(op.EndDate).err)
         => /\ SameLines(reply'.lines, ProducedLines(op, 1))
            /\ OneMonth(reply'.lines) => DaysInOrder(reply'.lines)
            /\ DayInOrder(reply'.lines)]_vars

\* the goroutines between the Lock and the Unlock of a method
InCriticalSection == {g \in Goroutines : inCall[g].pc \in {"in", "unlock"}}

\* C30: at most one goroutine, checker or handler, is between the Lock and
\* the Unlock of a method of the repository; the mutex is locked exactly
\* while one is.
C30_OneInCriticalSection ==
  /\ Cardinality(InCriticalSection) <= 1
  /\ lock <=> InCriticalSection # {}

\* a handler has inserted a reminder and not yet unlocked, while the other
\* handler and both checkers wait at Lock with calls that write
C30_Witness ==
  /\ inCall["processUpdate1"].pc = "unlock"
  /\ inCall["processUpdate1"].call.method = "AddReminder"
  /\ reminders # <<>>
  /\ \A g \in Goroutines \ {"processUpdate1"} : inCall[g].pc = "lock"
  /\ inCall["processUpdate2"].call.method = "DeleteReminder"
  /\ inCall["checkReminders"].call.method = "MarkMultipleAsNotified"
  /\ inCall["startRecurringChecker"].call.method
       = "UpdateRecurringReminderLastTriggered"


\* C31: when the process ends after Stop(), no tick of a checker is left in
\* progress: a tick that had begun has run through its sends and its mark
\* step.
C31_TicksCompleteBeforeExit ==
  exited => /\ pc \in {"idle", "returned"}
            /\ rpc \in {"idle", "returned"}

\* the process has ended after a one-shot tick sent a reminder and before
\* its mark step
C31_Aborted ==
  /\ exited
  /\ pc = "mark"
  /\ \E i \in DOMAIN reminders : sent[i] = 1 /\ ~reminders[i].notified


\* ------------------------------------------------------ isolation claims
\* the rows of a table that belong to user u
Mine(tbl, u) == [id \in {k \in DOMAIN tbl : tbl[k].user_id = u} |-> tbl[id]]

\* what user u is told about operation op, computed from u's own rows only;
\* "pending" is a recurring adjust that found its definition
OutcomeOf(op, u) ==
  LET n == ReminderIdOf(op.ReminderID).n
      own == Mine(reminders, u)
      ownRec == Mine(recurring, u)
      found == n \in DOMAIN own /\ ~own[n].notified
      foundRec == n \in DOMAIN ownRec /\ ownRec[n].active
  IN IF HasRecPrefix(op.ReminderID)
     THEN IF ~foundRec THEN NotFoundReply
          ELSE IF op.Action = "adjust" THEN "pending" ELSE AnswerReply
     ELSE IF op.Action = "adjust" /\ op.Datetime # ""
                /\ ParseDatetime(op.Datetime).err
     THEN InvalidDatetimeReply
     ELSE IF op.Action = "adjust" /\ op.Datetime = "" /\ op.Label = ""
     THEN NothingToChangeReply
     ELSE IF found THEN AnswerReply ELSE NotFoundReply

\* an adjust or a delete by id is about to be handled
ByIdStep ==
  /\ BatchRunning
  /\ adj.pc # "update"
  /\ batch.ops[batch.i].Action \in {"adjust", "delete"}
  /\ ~ReminderIdOf(batch.ops[batch.i].ReminderID).err

\* C32: what a user is told about an adjust or a delete by id depends on the
\* operation and on the user's own rows only, so an id of another user's item
\* is answered like an id that does not exist, and the rows of other users stay
\* as they are
C32_NoExistenceLeak ==
  [][ByIdStep =>
       LET op == batch.ops[batch.i]
           u == batch.user
       IN /\ IF OutcomeOf(op, u) = "pending"
             THEN adj'.pc = "update" /\ reply' = reply
             ELSE adj'.pc # "update" /\ reply' = OutcomeOf(op, u)
          /\ \A v \in Users \ {u} :
               /\ Mine(reminders', v) = Mine(reminders, v)
               /\ Mine(recurring', v) = Mine(recurring, v)]_vars

\* user 2 was told "not found" on deleting the live reminder 1 of user 1
C32_Witness ==
  /\ batch.ops # <<>>
  /\ batch.user = 2
  /\ batch.i = 2
  /\ batch.ops[1].Action = "delete"
  /\ batch.ops[1].ReminderID = "1"
  /\ reply = NotFoundReply
  /\ 1 \in DOMAIN reminders
  /\ reminders[1].user_id = 1
  /\ ~reminders[1].notified


\* the store methods that return the rows of a user
ListMethods ==
  {"GetUserReminders", "GetUserRemindersByPeriod", "GetUserRecurringReminders"}

\* C33: a list of a user holds rows of that user only; the list of active
\* reminders holds every unnotified reminder of the user once, by ascending
\* reminder_time, and the list of definitions every active definition of the
\* user once
C33_ListsOwnItemsOnly ==
  [][(ret' # ret /\ ret'.op \in ListMethods) =>
       LET rows == ret'.rows
           u == ret'.user
           live == {i \in DOMAIN reminders :
                      reminders[i].user_id = u /\ ~reminders[i].notified}
           active == {i \in DOMAIN recurring :
                        recurring[i].user_id = u /\ recurring[i].active}
       IN /\ \A k \in DOMAIN rows : rows[k].user_id = u
          /\ ret'.op = "GetUserReminders" =>
               /\ SeqToSet(rows) = {reminders[i] : i \in live}
               /\ Len(rows) = Cardinality(live)
               /\ \A k \in 1..(Len(rows) - 1) :
                    rows[k].reminder_time <= rows[k + 1].reminder_time
          /\ ret'.op = "GetUserRemindersByPeriod" =>
               SeqToSet(rows) \subseteq {reminders[i] : i \in live}
          /\ ret'.op = "GetUserRecurringReminders" =>
               /\ SeqToSet(rows) = {recurring[i] : i \in active}
               /\ Len(rows) = Cardinality(active)]_vars

\* user 1 listed their one reminder while the older live reminder of user 2
\* was in the table
C33_Witness ==
  /\ ret.op = "GetUserReminders"
  /\ ret.user = 1
  /\ DOMAIN reminders = {1, 2}
  /\ reminders[1].user_id = 2
  /\ ~reminders[1].notified
  /\ reminders[2].user_id = 1
  /\ ret.rows = <<reminders[2]>>


C35_IdsNeverReused ==
  [][/\ \A i \in DOMAIN reminders : reminders[i].id = i /\ i <= seq
     /\ \A i \in DOMAIN reminders \cap DOMAIN reminders' :
          /\ reminders'[i].id = reminders[i].id
          /\ reminders'[i].chat_id = reminders[i].chat_id
          /\ reminders'[i].user_id = reminders[i].user_id
     /\ \A n \in DOMAIN reminders' \ DOMAIN reminders :
          /\ n > seq
          /\ reminders'[n].id = n
          /\ \A k \in DOMAIN due : due[k].id < n
          /\ \A k \in DOMAIN reminderIDs : reminderIDs[k] < n]_vars

\* the tick holds id 1 in its due list, reminder 1 was deleted since and the
\* one reminder of the table has id 2
C35_Witness ==
  /\ pc = "send"
  /\ Len(due) = 1
  /\ due[1].id = 1
  /\ DOMAIN reminders = {2}
  /\ dueTicks[2] = 0


\* ----------------------------------------------------- concurrency claims
\* handler g has reported success for an adjust of definition i by op
Succeeded(g, i, op) ==
  /\ inCall[g].pc = "done"
  /\ inCall[g].ok
  /\ inCall[g].id = i
  /\ inCall[g].op = op

\* C36 (as stated): when an adjust of the label and an adjust of the time of
\* the same definition have both reported success, the stored definition
\* carries both changes.
C36_NoLostUpdate ==
  \A g \in Handlers, h \in Handlers :
     (g # h /\ Succeeded(g, 1, LabelOp) /\ Succeeded(h, 1, TimeOp)) =>
       /\ recurring[1].label = LabelOp.Label
       /\ recurring[1].time = TimeOfText(TimeOp.Time)

\* both adjusts reported success and the stored label is the one from before
C36_LabelLost ==
  /\ Succeeded("processUpdate1", 1, LabelOp)
  /\ Succeeded("processUpdate2", 1, TimeOp)
  /\ recurring[1].label = "a"
  /\ recurring[1].time = TimeOfText("00:01")


\* C37 (as stated): whenever a store operation has returned, no transaction it
\* opened is still open, so the connection is free for the next operation.
C37_NoTransactionLeftOpen == ~txOpen


\* C38 (as stated): a tick sends no notification for a reminder that
\* DeleteReminder has deleted; a row leaves the table by DeleteReminder only
\* and its id is not given again.
C38_NoSendAfterDelete ==
  [][(pc = "send" /\ sent' # sent) => due[idx].id \in DOMAIN reminders]_vars


\* goroutine g runs the statement of its call in this step
RunsStatement(g) == inCall[g].pc = "in" /\ inCall'[g].pc = "unlock"

\* a DeleteReminder of reminder i has returned true to goroutine g, or is
\* about to
DeletedBy(g, i) ==
  /\ inCall[g].pc \in {"unlock", "done"}
  /\ inCall[g].call.method = "DeleteReminder"
  /\ inCall[g].call.id = i
  /\ inCall[g].ok

\* C39: the calls on a reminder take effect one at a time: after a Delete of a
\* reminder got true, no Update and no other Delete of it gets true; a Delete
\* of a reminder that is not in the table gets false; a call that gets false
\* changes nothing
C39_LinearizablePerReminder ==
  [][\A h \in Handlers :
       RunsStatement(h) =>
         LET call == inCall[h].call
             ok == inCall'[h].ok
         IN \/ call.method = "AddReminder"
            \/ /\ (\E g \in Handlers \ {h} : DeletedBy(g, call.id)) => ~ok
               /\ call.id \notin DOMAIN reminders => ~ok
               /\ ~ok => reminders' = reminders
               /\ (ok /\ call.method = "DeleteReminder") =>
                    call.id \notin DOMAIN reminders']_vars

\* both handlers called DeleteReminder(1) at once: one got true, the other
\* false
C39_Witness ==
  /\ DeletedBy("processUpdate1", 1)
  /\ inCall["processUpdate1"].pc = "done"
  /\ inCall["processUpdate2"].pc = "done"
  /\ inCall["processUpdate2"].call.method = "DeleteReminder"
  /\ inCall["processUpdate2"].call.id = 1
  /\ ~inCall["processUpdate2"].ok


\* the periodic tasks that are inside b.bot.Send
Sending == {g \in TickGoroutines : inCall[g].pc = "send"}

\* C40: a periodic task that is sending holds no lock: while one sends, the
\* mutex is locked only by another goroutine that is between the Lock and the
\* Unlock of a method, and with no such goroutine a handler waiting at Lock
\* can take the mutex; the due query has unlocked before the first send and
\* the mark locks after the send
C40_NoLockWhileSending ==
  Sending # {} =>
    /\ lock => InCriticalSection # {}
    /\ InCriticalSection \cap Sending = {}
    /\ \A h \in Handlers :
         (inCall[h].pc = "lock" /\ InCriticalSection = {}) => ENABLED Lock(h)

\* checkReminders is in its second send, the recurring checker in its first,
\* and a handler is inside DeleteReminder while the other waits at Lock
C40_Witness ==
  /\ inCall["checkReminders"].pc = "send"
  /\ inCall["checkReminders"].k = 2
  /\ inCall["startRecurringChecker"].pc = "send"
  /\ inCall["processUpdate1"].pc = "in"
  /\ inCall["processUpdate1"].call.method = "DeleteReminder"
  /\ inCall["processUpdate2"].pc = "lock"

====
